---- MODULE Spec2Model ----
(***************************************************************************)
(* 2D heat diffusion by explicit finite differences, in three execution    *)
(* modes: sequential (heat_diffusion_sequential.py), multi-threaded        *)
(* (heat_diffusion_parallel.py) and distributed (heat_diffusion_master.py  *)
(* with heat_diffusion_worker.py over shared_utils.py).                    *)
(*                                                                         *)
(* Temperatures are integers (in the stencil scenario: hundredths of a     *)
(* degree) and c = alpha*dt/dx^2 is the fraction <<alpha*dt, dx*dx>>; the  *)
(* inputs are chosen so that every division by its denominator is exact,   *)
(* which makes the model the stencil in exact arithmetic.                  *)
(* A grid is a function row -> column -> temperature with 0-based indices  *)
(* as in the source.  The two numpy buffers of a solver live in `grids`    *)
(* under the names "A" and "B"; current_grid and next_grid are references  *)
(* to them, so that the tuple swap exchanges references and copies nothing.*)
(* Python's None is the empty tuple << >>; a present optional value v is   *)
(* << v >> (hotspot_pos is << >> or << row, col >>, as in the source).     *)
(*                                                                         *)
(* Atomicity: one action per Python statement of a thread's loop body      *)
(* (a cell assignment, a slice, a send, a receive, a barrier call).        *)
(***************************************************************************)
EXTENDS Integers, Sequences, FiniteSets, TLC

\* ---------------------------------------------------------------- bounds
MaxGridSize == 4
MaxIterations == 3
MaxWorkers == 2
\* the partitioning on its own is checked on larger inputs
MaxPartitionGridSize == 10
MaxPartitionWorkers == 9
\* messages a worker's peer may have in flight when the worker is checked alone
MaxInFlight == 2
\* send_pickled_data calls on the connection that is checked byte by byte
MaxWireMessages == 2

\* ------------------------------------------------- input domains of a run
Modes == {"seq", "thr", "dist"}
GridSizes == 3..MaxGridSize
Iterations == 0..MaxIterations
WorkerCounts == 1..MaxWorkers
InitialTemps == {4}
BoundaryTemps == {0}
HotspotTemps == {8}
Alphas == {1}
Dts == {1}
Dxs == {1}

None == << >>

\* hotspot positions offered to a run: none, or an interior cell of column 1
HotspotChoices(gs) == {None} \cup {<<r, 1>> : r \in 1..(gs - 2)}

VARIABLES
    mode,            \* which solver variant this run is
    grid_size, alpha, dt, dx, boundary_temp, initial_temp, c,
    hotspot_pos, hotspot_temp, num_iterations,
    num_workers,     \* num_threads (threaded) / num_workers (master)
    grids,           \* the two numpy buffers, "A" and "B"
    current_grid,    \* self.current_grid / self.current_global_grid (a reference)
    next_grid,       \* self.next_grid / self.next_global_grid (a reference)
    mainPc,          \* position of the main (coordinating) thread
    iteration,       \* iterations the main thread has completed
    result,          \* outcome of solve()/run(): pending, grid, none, or the exception
    bands,           \* row band of each worker: <<start_row, end_row>> (end exclusive)
    bParties, bState, bCount,   \* threading.Barrier: _parties, _state, _count
    taskPc,          \* position of each worker thread / worker-handler thread
    taskIter,        \* loop iterations each of them has completed
    taskPos,         \* threaded worker: index of the next cell of its band
    taskLocal,       \* handler thread: the locals sub_grid_core, halo_top, halo_bottom
    taskWrites,      \* how many times each of them has finished writing its band into next
    procPc,          \* position of each worker process (HeatDiffusionWorker.run)
    procCfg,         \* worker process: parameters taken from INITIAL_CONFIG
    toWorker,        \* bytes in flight master -> worker, as a sequence of messages
    toMaster,        \* bytes in flight worker -> master
    connClosed,      \* the master's socket object of a worker has been closed
    faulted,         \* a worker process was lost (environment fault)
    wire,            \* one direction of a TCP connection: the bytes in flight
    wireClosed,      \* the sending end of that connection has been closed
    sentLog,         \* the objects passed to send_pickled_data, in order
    recvLog,         \* what the receive_pickled_data calls returned or raised, in order
    receiver,        \* position of the receiving thread inside receive_pickled_data
    returnedGrids,   \* what earlier solve() calls on this instance returned, in order
    swapLoaded       \* swap statement: the reference it loaded and has not yet stored

vars == <<mode, grid_size, alpha, dt, dx, boundary_temp, initial_temp, c,
          hotspot_pos, hotspot_temp, num_iterations, num_workers, grids,
          current_grid, next_grid, mainPc, iteration, result, bands,
          bParties, bState, bCount, taskPc, taskIter, taskPos, taskLocal,
          taskWrites, procPc, procCfg, toWorker, toMaster, connClosed, faulted,
          wire, wireClosed, sentLog, recvLog, receiver, returnedGrids, swapLoaded>>

params == <<mode, grid_size, alpha, dt, dx, boundary_temp, initial_temp, c,
            hotspot_pos, hotspot_temp, num_iterations>>
gridVars == <<grids, current_grid, next_grid>>
barrierVars == <<bParties, bState, bCount>>
taskVars == <<taskPc, taskIter, taskPos, taskLocal, taskWrites>>
netVars == <<procPc, procCfg, toWorker, toMaster, connClosed, faulted>>
wireVars == <<wire, wireClosed, sentLog, recvLog, receiver>>
callVars == <<returnedGrids, swapLoaded>>

\* the byte-level connection is not part of a run of the solvers
WireUnused ==
    /\ wire = << >> /\ wireClosed = FALSE
    /\ sentLog = << >> /\ recvLog = << >>
    /\ receiver = [pc |-> "idle", length |-> 0]

\* ------------------------------------------------------- BaseHeatDiffusion
\* np.full((grid_size, grid_size), v)
full(gs, v) == [r \in 0..(gs - 1) |-> [col \in 0..(gs - 1) |-> v]]

\* a faulty variant that leaves the right border column (grid[:, -1]) alone
apply_boundary_conditions_no_right(grid, bt) ==
    LET last == Cardinality(DOMAIN grid) - 1
    IN  [r \in DOMAIN grid |->
            [col \in DOMAIN grid[r] |->
                IF r = 0 \/ r = last \/ col = 0
                THEN bt ELSE grid[r][col]]]

\* _apply_boundary_conditions: the four border lines are set to boundary_temp
apply_boundary_conditions(grid, bt) ==
    LET last == Cardinality(DOMAIN grid) - 1
    IN  [r \in DOMAIN grid |->
            [col \in DOMAIN grid[r] |->
                IF r = 0 \/ r = last \/ col = 0 \/ col = last
                THEN bt ELSE grid[r][col]]]

\* self.c = alpha * dt / (dx**2)
diffusion_factor(a, t, x) == <<a * t, x * x>>

\* _update_cell of heat_diffusion_base.py: the 5-point stencil
update_cell(r, col, grid_to_read_from) ==
    LET center == grid_to_read_from[r][col]
        north == grid_to_read_from[r - 1][col]
        south == grid_to_read_from[r + 1][col]
        east == grid_to_read_from[r][col + 1]
        west == grid_to_read_from[r][col - 1]
    IN  center + (c[1] * (north + south + east + west - 4 * center)) \div c[2]

\* BaseHeatDiffusion.__init__: both buffers filled, then the border applied
constructed_grids(gs, it, bt) ==
    [b \in {"A", "B"} |-> apply_boundary_conditions(full(gs, it), bt)]

IsInterior(pos) ==
    /\ 0 < pos[1] /\ pos[1] < grid_size - 1
    /\ 0 < pos[2] /\ pos[2] < grid_size - 1

\* _initialize_simulation_state: fill, hotspot (interior or ValueError), border.
\* Yields the new buffers and whether the ValueError was raised (the fill has
\* happened by then).
initialize_simulation_state(heap, cur, nxt, it) ==
    LET filled == [heap EXCEPT ![cur] = full(grid_size, it),
                               ![nxt] = full(grid_size, it)]
    IN  IF hotspot_pos # None /\ ~IsInterior(hotspot_pos)
        THEN [grids |-> filled, raised |-> TRUE]
        ELSE LET spot == IF hotspot_pos # None
                         THEN [filled EXCEPT
                                 ![cur][hotspot_pos[1]][hotspot_pos[2]] = hotspot_temp[1],
                                 ![nxt][hotspot_pos[1]][hotspot_pos[2]] = hotspot_temp[1]]
                         ELSE filled
             IN  [grids |-> [spot EXCEPT
                               ![cur] = apply_boundary_conditions(spot[cur], boundary_temp),
                               ![nxt] = apply_boundary_conditions(spot[nxt], boundary_temp)],
                  raised |-> FALSE]

\* a faulty variant that lets a temperature without a position through
hotspot_args_ok_position_only == hotspot_pos # None => hotspot_temp # None

\* "hotspot_pos and hotspot_temp must be given together or not at all"
hotspot_args_ok == (hotspot_pos = None) <=> (hotspot_temp = None)

\* ------------------------------------------------------ sequential solver
\* a faulty variant of the loop body that updates in place: it reads the
\* neighbours from the buffer it writes
seq_cell_in_place(heap, cur, nxt, r, col) ==
    IF hotspot_pos # None /\ hotspot_pos[1] = r /\ hotspot_pos[2] = col
    THEN [heap EXCEPT ![nxt][r][col] = hotspot_temp[1]]
    ELSE [heap EXCEPT ![nxt][r][col] = update_cell(r, col, heap[nxt])]

\* a faulty variant of the loop body without the hotspot branch
seq_cell_no_hotspot(heap, cur, nxt, r, col) ==
    [heap EXCEPT ![nxt][r][col] = update_cell(r, col, heap[cur])]

\* body of the two nested loops of SequentialHeatDiffusionSolver.solve
seq_cell(heap, cur, nxt, r, col) ==
    IF hotspot_pos # None /\ hotspot_pos[1] = r /\ hotspot_pos[2] = col
    THEN [heap EXCEPT ![nxt][r][col] = hotspot_temp[1]]
    ELSE [heap EXCEPT ![nxt][r][col] = update_cell(r, col, heap[cur])]

\* for r in range(1, grid_size-1): for c in range(1, grid_size-1): ...
\* k counts the interior cells already written, in row-major order
RECURSIVE seq_sweep(_, _, _, _)
seq_sweep(heap, cur, nxt, k) ==
    LET n == grid_size - 2
    IN  IF k >= n * n THEN heap
        ELSE seq_sweep(seq_cell(heap, cur, nxt, 1 + (k \div n), 1 + (k % n)),
                       cur, nxt, k + 1)

\* if hotspot_pos: self.current_grid[hotspot_pos] = hotspot_temp
restore_hotspot(heap, cur) ==
    IF hotspot_pos # None
    THEN [heap EXCEPT ![cur][hotspot_pos[1]][hotspot_pos[2]] = hotspot_temp[1]]
    ELSE heap

\* one pass of the sequential for-loop: sweep, swap, border, hotspot
seq_iteration(s) ==
    LET swept == seq_sweep(s.grids, s.cur, s.nxt, 0)
        bordered == [swept EXCEPT
                       ![s.nxt] = apply_boundary_conditions(swept[s.nxt], boundary_temp)]
    IN  [grids |-> restore_hotspot(bordered, s.nxt), cur |-> s.nxt, nxt |-> s.cur]

RECURSIVE seq_iterations(_, _)
seq_iterations(s, n) == IF n = 0 THEN s ELSE seq_iterations(seq_iteration(s), n - 1)

\* the grid SequentialHeatDiffusionSolver(...).solve(n, hotspot_pos, hotspot_temp)
\* returns on a freshly constructed solver
sequential_solve(n) ==
    LET built == constructed_grids(grid_size, initial_temp, boundary_temp)
        start == initialize_simulation_state(built, "A", "B", built["A"][1][1])
        final == seq_iterations([grids |-> start.grids, cur |-> "A", nxt |-> "B"], n)
    IN  final.grids[final.cur]

\* ------------------------------------------------------- threading.Barrier
\* Barrier.wait() up to the point where the caller either returns or blocks:
\* _enter (blocks while the barrier drains; raises when broken), then the
\* last party to arrive releases the others.
BarrierCanEnter == bState # "draining"

\* a faulty variant that releases with one party still missing
barrier_arrive_one_short ==
    IF bState = "broken"
    THEN [outcome |-> "raise", state |-> bState, count |-> bCount]
    ELSE IF bCount + 2 >= bParties
    THEN [outcome |-> "pass",
          state |-> IF bCount = 0 THEN "filling" ELSE "draining",
          count |-> bCount]
    ELSE [outcome |-> "block", state |-> bState, count |-> bCount + 1]

barrier_arrive ==
    IF bState = "broken"
    THEN [outcome |-> "raise", state |-> bState, count |-> bCount]
    ELSE IF bCount + 1 = bParties
    THEN [outcome |-> "pass",
          state |-> IF bCount = 0 THEN "filling" ELSE "draining",
          count |-> bCount]
    ELSE [outcome |-> "block", state |-> bState, count |-> bCount + 1]

\* a blocked party wakes up once _state != 0: BrokenBarrierError when broken,
\* else it returns; the last one out ends the draining
BarrierCanLeave == bState # "filling"

barrier_leave ==
    [outcome |-> IF bState = "broken" THEN "raise" ELSE "pass",
     state |-> IF bCount - 1 = 0 /\ bState = "draining" THEN "filling" ELSE bState,
     count |-> bCount - 1]

\* Barrier.n_waiting
n_waiting == IF bState = "filling" THEN bCount ELSE 0

\* ------------------------------------------------------------ partitioning
\* a faulty row split that forgets the remaining rows
RECURSIVE thread_rows_no_remainder(_, _, _, _)
thread_rows_no_remainder(total, n, i, current_row_idx) ==
    IF i >= n THEN << >>
    ELSE LET rows_per_thread == total \div n
             end_row_idx == current_row_idx + rows_per_thread
         IN  <<(<<current_row_idx, end_row_idx>>)>>
                 \o thread_rows_no_remainder(total, n, i + 1, end_row_idx)

\* the row split of ParallelHeatDiffusionSolver.solve: thread i gets
\* rows_per_thread rows, the first remaining_rows threads one more
RECURSIVE thread_rows(_, _, _, _)
thread_rows(total, n, i, current_row_idx) ==
    IF i >= n THEN << >>
    ELSE LET rows_per_thread == total \div n
             remaining_rows == total % n
             rows_to_assign == rows_per_thread + (IF i < remaining_rows THEN 1 ELSE 0)
             end_row_idx == current_row_idx + rows_to_assign
         IN  <<(<<current_row_idx, end_row_idx>>)>> \o thread_rows(total, n, i + 1, end_row_idx)

\* a faulty worker-count check that never rejects
too_many_workers_never(total_internal_rows, n) == FALSE

\* _partition_grid: "if total_internal_rows < self.num_workers: raise ValueError"
too_many_workers(total_internal_rows, n) == total_internal_rows < n

\* a faulty partition that gives the extra rows to the last bands
RECURSIVE partition_grid_extra_last(_, _, _, _)
partition_grid_extra_last(total, n, i, current_global_row) ==
    IF i >= n THEN << >>
    ELSE LET rows_per_worker == total \div n
             remainder == total % n
             start_row == current_global_row
             end_row == start_row + rows_per_worker + (IF i >= n - remainder THEN 1 ELSE 0)
         IN  <<(<<start_row, end_row>>)>>
                 \o partition_grid_extra_last(total, n, i + 1, end_row)

\* HeatDiffusionMaster._partition_grid (after its worker-count check)
RECURSIVE partition_grid(_, _, _, _)
partition_grid(total, n, i, current_global_row) ==
    IF i >= n THEN << >>
    ELSE LET rows_per_worker == total \div n
             remainder == total % n
             start_row == current_global_row
             end_row == start_row + rows_per_worker + (IF i < remainder THEN 1 ELSE 0)
         IN  <<(<<start_row, end_row>>)>> \o partition_grid(total, n, i + 1, end_row)

\* bands is a Python list/dict indexed from 0
start_of(i) == bands[i + 1][1]
end_of(i) == bands[i + 1][2]
Tasks == 0..(Len(bands) - 1)

\* a faulty variant of the constructor that does not apply the border
master_constructed_grids_no_border(gs, it, bt, hp, ht) ==
    LET filled == full(gs, it)
        spot == IF hp # None THEN [filled EXCEPT ![hp[1]][hp[2]] = ht[1]] ELSE filled
    IN  [b \in {"A", "B"} |-> spot]

\* HeatDiffusionMaster.__init__: buffers filled, hotspot written, border applied
master_constructed_grids(gs, it, bt, hp, ht) ==
    LET filled == full(gs, it)
        spot == IF hp # None THEN [filled EXCEPT ![hp[1]][hp[2]] = ht[1]] ELSE filled
    IN  [b \in {"A", "B"} |-> apply_boundary_conditions(spot, bt)]

\* ------------------------------------------------------------------- Init
Init ==
    /\ mode \in Modes
    /\ grid_size \in GridSizes
    /\ alpha \in Alphas /\ dt \in Dts /\ dx \in Dxs
    /\ c = diffusion_factor(alpha, dt, dx)
    /\ boundary_temp \in BoundaryTemps
    /\ initial_temp \in InitialTemps
    /\ hotspot_pos \in HotspotChoices(grid_size)
    /\ hotspot_temp \in (IF hotspot_pos = None THEN {None} ELSE {<<t>> : t \in HotspotTemps})
    /\ num_iterations \in Iterations
    /\ num_workers \in (IF mode = "seq" THEN {1} ELSE WorkerCounts)
    /\ grids = IF mode = "dist"
               THEN master_constructed_grids(grid_size, initial_temp, boundary_temp,
                                             hotspot_pos, hotspot_temp)
               ELSE constructed_grids(grid_size, initial_temp, boundary_temp)
    /\ current_grid = "A" /\ next_grid = "B"
    /\ mainPc = "start" /\ iteration = 0 /\ result = "pending"
    /\ bands = << >>
    /\ bParties = (IF mode = "dist" THEN num_workers + 1 ELSE 0)
    /\ bState = "filling" /\ bCount = 0
    /\ taskPc = << >> /\ taskIter = << >> /\ taskPos = << >> /\ taskLocal = << >>
    /\ taskWrites = << >>
    /\ procPc = [i \in (IF mode = "dist" THEN 0..(num_workers - 1) ELSE {}) |-> "connecting"]
    /\ procCfg = [i \in DOMAIN procPc |-> None]
    /\ toWorker = [i \in DOMAIN procPc |-> << >>]
    /\ toMaster = [i \in DOMAIN procPc |-> << >>]
    /\ connClosed = [i \in DOMAIN procPc |-> FALSE]
    /\ faulted = FALSE
    /\ WireUnused
    /\ returnedGrids = << >> /\ swapLoaded = None

\* ------------------------------------------- SequentialHeatDiffusionSolver
SeqSolveStart ==
    /\ mode = "seq" /\ mainPc = "start"
    /\ IF ~hotspot_args_ok
       THEN /\ result' = "ValueError" /\ mainPc' = "done"
            /\ UNCHANGED grids
       ELSE LET st == initialize_simulation_state(grids, current_grid, next_grid,
                                                  grids[current_grid][1][1])
            IN  /\ grids' = st.grids
                /\ IF st.raised
                   THEN result' = "ValueError" /\ mainPc' = "done"
                   ELSE result' = result /\ mainPc' = "sweep"
    /\ UNCHANGED <<callVars, wireVars, params, num_workers, current_grid, next_grid, iteration, bands,
                   barrierVars, taskVars, netVars>>

SeqSweep ==
    /\ mode = "seq" /\ mainPc = "sweep" /\ iteration < num_iterations
    /\ grids' = seq_sweep(grids, current_grid, next_grid, 0)
    /\ mainPc' = "swap"
    /\ UNCHANGED <<callVars, wireVars, params, num_workers, current_grid, next_grid, iteration, result,
                   bands, barrierVars, taskVars, netVars>>

\* a faulty variant that swaps by copying the cells of next into current
SeqSwap_copies ==
    /\ mode = "seq" /\ mainPc = "swap"
    /\ grids' = [grids EXCEPT ![current_grid] = grids[next_grid]]
    /\ mainPc' = "boundary"
    /\ UNCHANGED <<callVars, wireVars, params, num_workers, current_grid, next_grid,
                   iteration, result, bands, barrierVars, taskVars, netVars>>

SeqSwap ==
    /\ mode = "seq" /\ mainPc = "swap"
    /\ current_grid' = next_grid /\ next_grid' = current_grid
    /\ mainPc' = "boundary"
    /\ UNCHANGED <<callVars, wireVars, params, num_workers, grids, iteration, result, bands,
                   barrierVars, taskVars, netVars>>

SeqBoundary ==
    /\ mode = "seq" /\ mainPc = "boundary"
    /\ grids' = [grids EXCEPT ![current_grid] =
                    apply_boundary_conditions(grids[current_grid], boundary_temp)]
    /\ mainPc' = "hotspot"
    /\ UNCHANGED <<callVars, wireVars, params, num_workers, current_grid, next_grid, iteration, result,
                   bands, barrierVars, taskVars, netVars>>

SeqHotspot ==
    /\ mode = "seq" /\ mainPc = "hotspot"
    /\ grids' = restore_hotspot(grids, current_grid)
    /\ iteration' = iteration + 1
    /\ mainPc' = "sweep"
    /\ UNCHANGED <<callVars, wireVars, params, num_workers, current_grid, next_grid, result, bands,
                   barrierVars, taskVars, netVars>>

\* a faulty variant that may leave the loop before it is exhausted
SeqReturn_early ==
    /\ mode = "seq" /\ mainPc = "sweep" /\ iteration <= num_iterations
    /\ result' = "grid" /\ mainPc' = "done"
    /\ UNCHANGED <<callVars, wireVars, params, num_workers, gridVars, iteration, bands,
                   barrierVars, taskVars, netVars>>

\* the for-loop is exhausted: return self.current_grid
SeqReturn ==
    /\ mode = "seq" /\ mainPc = "sweep" /\ iteration = num_iterations
    /\ result' = "grid" /\ mainPc' = "done"
    /\ UNCHANGED <<callVars, wireVars, params, num_workers, gridVars, iteration, bands,
                   barrierVars, taskVars, netVars>>

NextSeq == SeqSolveStart \/ SeqSweep \/ SeqSwap \/ SeqBoundary \/ SeqHotspot \/ SeqReturn

\* --------------------------------------------- ParallelHeatDiffusionSolver
\* body of the nested loops of _worker_iteration_loop
worker_cell(heap, cur, nxt, r, col) ==
    IF hotspot_pos # None /\ hotspot_pos[1] = r /\ hotspot_pos[2] = col
    THEN [heap EXCEPT ![nxt][r][col] = hotspot_temp[1]]
    ELSE [heap EXCEPT ![nxt][r][col] = update_cell(r, col, heap[cur])]

\* a faulty variant that keeps the requested thread count
reduced_threads_kept(n, total_internal_rows) == n

\* num_threads after the reduction to the number of interior rows
reduced_threads(n, total_internal_rows) ==
    IF n > total_internal_rows
    THEN (IF total_internal_rows > 1 THEN total_internal_rows ELSE 1)
    ELSE n

\* where a worker (or handler) thread goes after a barrier wait that returned:
\* the for-loop takes its next value or is exhausted
after_barrier(i, first, last) ==
    IF taskIter[i] + 1 < num_iterations THEN first ELSE last

\* solve() up to and including the start of the worker threads
ThrSolveStart ==
    /\ mode = "thr" /\ mainPc = "start"
    /\ IF ~hotspot_args_ok
       THEN /\ result' = "ValueError" /\ mainPc' = "done"
            /\ UNCHANGED <<num_workers, grids, bands, barrierVars, taskVars>>
       ELSE LET total_internal_rows == grid_size - 2
                n == reduced_threads(num_workers, total_internal_rows)
                st == initialize_simulation_state(grids, current_grid, next_grid,
                                                  grids[current_grid][1][1])
            IN  /\ num_workers' = n
                /\ grids' = st.grids
                /\ IF st.raised
                   THEN /\ result' = "ValueError" /\ mainPc' = "done"
                        /\ UNCHANGED <<bands, barrierVars, taskVars>>
                   ELSE /\ result' = result
                        /\ bParties' = n + 1 /\ bState' = "filling" /\ bCount' = 0
                        /\ bands' = thread_rows(total_internal_rows, n, 0, 1)
                        /\ taskPc' = [i \in 0..(n - 1) |->
                                         IF num_iterations > 0 THEN "compute" ELSE "done"]
                        /\ taskIter' = [i \in 0..(n - 1) |-> 0]
                        /\ taskPos' = [i \in 0..(n - 1) |-> 0]
                        /\ taskLocal' = [i \in 0..(n - 1) |-> None]
                        /\ taskWrites' = [i \in 0..(n - 1) |-> 0]
                        /\ mainPc' = "wait"
    /\ UNCHANGED <<callVars, wireVars, params, current_grid, next_grid, iteration, netVars>>

\* one pass of the inner loop body: self.next_grid[r, c] = ...
ThrWorkerCell(i) ==
    /\ mode = "thr" /\ i \in DOMAIN taskPc /\ taskPc[i] = "compute"
    /\ LET n == grid_size - 2
           k == taskPos[i]
           r == start_of(i) + (k \div n)
           col == 1 + (k % n)
       IN  /\ grids' = worker_cell(grids, current_grid, next_grid, r, col)
           /\ taskPos' = [taskPos EXCEPT ![i] = k + 1]
           /\ taskPc' = [taskPc EXCEPT ![i] =
                            IF k + 1 = (end_of(i) - start_of(i)) * n
                            THEN "wait" ELSE "compute"]
           /\ taskWrites' = [taskWrites EXCEPT ![i] =
                                IF k + 1 = (end_of(i) - start_of(i)) * n
                                THEN @ + 1 ELSE @]
    /\ UNCHANGED <<callVars, wireVars, params, num_workers, current_grid, next_grid, mainPc, iteration,
                   result, bands, barrierVars, taskIter, taskLocal, netVars>>

\* barrier_obj.wait() of a worker thread, up to returning, raising or blocking
ThrWorkerWait(i) ==
    /\ mode = "thr" /\ i \in DOMAIN taskPc /\ taskPc[i] = "wait"
    /\ BarrierCanEnter
    /\ LET b == barrier_arrive
       IN  /\ bState' = b.state /\ bCount' = b.count
           /\ taskPc' = [taskPc EXCEPT ![i] =
                            CASE b.outcome = "raise" -> "done"
                              [] b.outcome = "block" -> "blocked"
                              [] OTHER -> after_barrier(i, "compute", "done")]
           /\ taskIter' = [taskIter EXCEPT ![i] =
                              IF b.outcome = "pass" THEN @ + 1 ELSE @]
           /\ taskPos' = [taskPos EXCEPT ![i] = 0]
    /\ UNCHANGED <<callVars, wireVars, params, num_workers, gridVars, mainPc, iteration, result, bands,
                   bParties, taskLocal, taskWrites, netVars>>

\* a worker thread blocked in the barrier is woken
ThrWorkerWake(i) ==
    /\ mode = "thr" /\ i \in DOMAIN taskPc /\ taskPc[i] = "blocked"
    /\ BarrierCanLeave
    /\ LET b == barrier_leave
       IN  /\ bState' = b.state /\ bCount' = b.count
           /\ taskPc' = [taskPc EXCEPT ![i] =
                            IF b.outcome = "raise" THEN "done"
                            ELSE after_barrier(i, "compute", "done")]
           /\ taskIter' = [taskIter EXCEPT ![i] =
                              IF b.outcome = "pass" THEN @ + 1 ELSE @]
    /\ UNCHANGED <<callVars, wireVars, params, num_workers, gridVars, mainPc, iteration, result, bands,
                   bParties, taskPos, taskLocal, taskWrites, netVars>>

\* barrier.wait() of the main thread
ThrMainWait ==
    /\ mode = "thr" /\ mainPc = "wait" /\ iteration < num_iterations
    /\ BarrierCanEnter
    /\ LET b == barrier_arrive
       IN  /\ bState' = b.state /\ bCount' = b.count
           /\ mainPc' = CASE b.outcome = "raise" -> "join"
                          [] b.outcome = "block" -> "blocked"
                          [] OTHER -> "swap"
    /\ UNCHANGED <<callVars, wireVars, params, num_workers, gridVars, iteration, result, bands,
                   bParties, taskVars, netVars>>

ThrMainWake ==
    /\ mode = "thr" /\ mainPc = "blocked"
    /\ BarrierCanLeave
    /\ LET b == barrier_leave
       IN  /\ bState' = b.state /\ bCount' = b.count
           /\ mainPc' = IF b.outcome = "raise" THEN "join" ELSE "swap"
    /\ UNCHANGED <<callVars, wireVars, params, num_workers, gridVars, iteration, result, bands,
                   bParties, taskVars, netVars>>

\* self.current_grid, self.next_grid = self.next_grid, self.current_grid
ThrMainSwap ==
    /\ mode = "thr" /\ mainPc = "swap"
    /\ current_grid' = next_grid /\ next_grid' = current_grid
    /\ mainPc' = "boundary"
    /\ UNCHANGED <<callVars, wireVars, params, num_workers, grids, iteration, result, bands,
                   barrierVars, taskVars, netVars>>

ThrMainBoundary ==
    /\ mode = "thr" /\ mainPc = "boundary"
    /\ grids' = [grids EXCEPT ![current_grid] =
                    apply_boundary_conditions(grids[current_grid], boundary_temp)]
    /\ mainPc' = "fragment"
    /\ UNCHANGED <<callVars, wireVars, params, num_workers, current_grid, next_grid, iteration, result,
                   bands, barrierVars, taskVars, netVars>>

\* "if hotspot_pos: self.current": the solver has no attribute `current`, so
\* with a hotspot the expression raises AttributeError out of solve()
ThrMainFragment ==
    /\ mode = "thr" /\ mainPc = "fragment"
    /\ IF hotspot_pos # None
       THEN result' = "AttributeError" /\ mainPc' = "done"
       ELSE result' = result /\ mainPc' = "hotspot"
    /\ UNCHANGED <<callVars, wireVars, params, num_workers, gridVars, iteration, bands,
                   barrierVars, taskVars, netVars>>

\* "if hotspot_pos: self.current_grid[hotspot_pos] = hotspot_temp", end of the body
ThrMainHotspot ==
    /\ mode = "thr" /\ mainPc = "hotspot"
    /\ grids' = restore_hotspot(grids, current_grid)
    /\ iteration' = iteration + 1
    /\ mainPc' = "wait"
    /\ UNCHANGED <<callVars, wireVars, params, num_workers, current_grid, next_grid, result, bands,
                   barrierVars, taskVars, netVars>>

\* for t in threads: t.join(), then return self.current_grid
ThrMainJoin ==
    /\ mode = "thr"
    /\ \/ mainPc = "join"
       \/ mainPc = "wait" /\ iteration = num_iterations
    /\ \A i \in DOMAIN taskPc : taskPc[i] = "done"
    /\ result' = "grid" /\ mainPc' = "done"
    /\ UNCHANGED <<callVars, wireVars, params, num_workers, gridVars, iteration, bands,
                   barrierVars, taskVars, netVars>>

NextThr ==
    \/ ThrSolveStart
    \/ \E i \in 0..(MaxWorkers - 1) : ThrWorkerCell(i) \/ ThrWorkerWait(i) \/ ThrWorkerWake(i)
    \/ ThrMainWait \/ ThrMainWake \/ ThrMainSwap \/ ThrMainBoundary
    \/ ThrMainFragment \/ ThrMainHotspot \/ ThrMainJoin

\* ------------------------------------------------------ HeatDiffusionWorker
\* what receive_pickled_data hands over for a frame whose payload does not
\* unpickle: nothing, it raises
UndecodableFrame == [frame |-> "undecodable"]
decodes(m) == "frame" \notin DOMAIN m

\* message.get("type"): None when the key is missing
msg_type(m) == IF "type" \in DOMAIN m THEN m.type ELSE None

\* the keys run() reads from INITIAL_CONFIG and from ITERATION_UPDATE
ConfigFields == {"grid_size_full", "alpha", "dt", "dx", "boundary_temp"}
UpdateFields == {"sub_grid", "halo_top", "halo_bottom", "hotspot_pos_relative",
                 "hotspot_temp"}

\* the first message lets the worker enter its loop (else an exception)
config_accepted(initial_config) ==
    /\ decodes(initial_config)
    /\ msg_type(initial_config) = "INITIAL_CONFIG"
    /\ ConfigFields \subseteq DOMAIN initial_config

\* the message is processed as an iteration (else break or an exception)
update_accepted(iter_data) ==
    /\ decodes(iter_data)
    /\ msg_type(iter_data) = "ITERATION_UPDATE"
    /\ UpdateFields \subseteq DOMAIN iter_data

\* _update_cell of shared_utils.py, with the worker's own factor c
update_cell_local(r_local, c_local, grid_with_halo, cc) ==
    LET center == grid_with_halo[r_local][c_local]
        north == grid_with_halo[r_local - 1][c_local]
        south == grid_with_halo[r_local + 1][c_local]
        east == grid_with_halo[r_local][c_local + 1]
        west == grid_with_halo[r_local][c_local - 1]
    IN  center + (cc[1] * (north + south + east + west - 4 * center)) \div cc[2]

\* the worker's local_grid: halo_top (or the border value), the received
\* sub-grid, halo_bottom (or the border value)
build_local_grid(cfg, msg) ==
    LET num_rows_worker == Cardinality(DOMAIN msg.sub_grid)
        border_row == [col \in 0..(cfg.grid_size - 1) |-> cfg.boundary_temp]
    IN  [r \in 0..(num_rows_worker + 1) |->
            IF r = 0
            THEN (IF msg.halo_top # None THEN msg.halo_top[1] ELSE border_row)
            ELSE IF r = num_rows_worker + 1
            THEN (IF msg.halo_bottom # None THEN msg.halo_bottom[1] ELSE border_row)
            ELSE msg.sub_grid[r - 1]]

\* body of the worker's nested loops
local_cell(cfg, msg, local_grid, next_local_grid, r_local, c_local) ==
    LET hp == msg.hotspot_pos_relative
    IN  IF hp # None /\ hp[1] = r_local - 1 /\ hp[2] = c_local
        THEN [next_local_grid EXCEPT ![r_local][c_local] = msg.hotspot_temp[1]]
        ELSE [next_local_grid EXCEPT ![r_local][c_local] =
                 update_cell_local(r_local, c_local, local_grid, cfg.c)]

\* for r_local in range(1, num_rows_worker+1): for c_local in range(1, grid_size-1)
RECURSIVE local_sweep(_, _, _, _, _)
local_sweep(cfg, msg, local_grid, next_local_grid, k) ==
    LET n == cfg.grid_size - 2
        num_rows_worker == Cardinality(DOMAIN msg.sub_grid)
    IN  IF k >= num_rows_worker * n THEN next_local_grid
        ELSE local_sweep(cfg, msg, local_grid,
                         local_cell(cfg, msg, local_grid, next_local_grid,
                                    1 + (k \div n), 1 + (k % n)),
                         k + 1)

\* a faulty variant that sends the halo rows back with the band
worker_result_keeps_halos(cfg, msg) ==
    LET local_grid == build_local_grid(cfg, msg)
    IN  [type |-> "SUB_GRID_RESULT",
         updated_sub_grid |-> local_sweep(cfg, msg, local_grid, local_grid, 0)]

\* the SUB_GRID_RESULT a worker answers an ITERATION_UPDATE with
worker_result(cfg, msg) ==
    LET num_rows_worker == Cardinality(DOMAIN msg.sub_grid)
        local_grid == build_local_grid(cfg, msg)
        next_local_grid == local_sweep(cfg, msg, local_grid, local_grid, 0)
    IN  [type |-> "SUB_GRID_RESULT",
         updated_sub_grid |-> [r \in 0..(num_rows_worker - 1) |-> next_local_grid[r + 1]]]

\* a faulty variant that enters the loop whatever the first message is
WorkerRecvConfig_lenient(i) ==
    /\ mode \in {"dist", "worker"} /\ i \in DOMAIN procPc /\ procPc[i] = "await_config"
    /\ toWorker[i] # << >>
    /\ LET initial_config == Head(toWorker[i])
       IN  IF config_accepted(initial_config)
           THEN procCfg' = [procCfg EXCEPT ![i] =
                      [grid_size |-> initial_config.grid_size_full,
                       boundary_temp |-> initial_config.boundary_temp,
                       c |-> diffusion_factor(initial_config.alpha,
                                              initial_config.dt,
                                              initial_config.dx)]]
           ELSE procCfg' = procCfg
    /\ procPc' = [procPc EXCEPT ![i] = "running"]
    /\ toWorker' = [toWorker EXCEPT ![i] = Tail(@)]
    /\ UNCHANGED <<callVars, wireVars, params, num_workers, gridVars, mainPc, iteration, result, bands,
                   barrierVars, taskVars, toMaster, connClosed, faulted>>

\* first message: INITIAL_CONFIG, else ValueError; the socket is closed on exit
WorkerRecvConfig(i) ==
    /\ mode \in {"dist", "worker"} /\ i \in DOMAIN procPc /\ procPc[i] = "await_config"
    /\ \/ /\ toWorker[i] # << >>
          /\ LET initial_config == Head(toWorker[i])
             IN  IF config_accepted(initial_config)
                 THEN /\ procCfg' = [procCfg EXCEPT ![i] =
                            [grid_size |-> initial_config.grid_size_full,
                             boundary_temp |-> initial_config.boundary_temp,
                             c |-> diffusion_factor(initial_config.alpha,
                                                    initial_config.dt,
                                                    initial_config.dx)]]
                      /\ procPc' = [procPc EXCEPT ![i] = "running"]
                 ELSE /\ procCfg' = procCfg
                      /\ procPc' = [procPc EXCEPT ![i] = "closed"]
          /\ toWorker' = [toWorker EXCEPT ![i] = Tail(@)]
       \/ /\ toWorker[i] = << >> /\ connClosed[i]
          /\ procPc' = [procPc EXCEPT ![i] = "closed"]
          /\ UNCHANGED <<procCfg, toWorker>>
    /\ UNCHANGED <<callVars, wireVars, params, num_workers, gridVars, mainPc, iteration, result, bands,
                   barrierVars, taskVars, toMaster, connClosed, faulted>>

\* a faulty variant that ignores whatever is no ITERATION_UPDATE and goes on
WorkerIterate_skips(i) ==
    /\ mode \in {"dist", "worker"} /\ i \in DOMAIN procPc /\ procPc[i] = "running"
    /\ toWorker[i] # << >>
    /\ LET iter_data == Head(toWorker[i])
       IN  IF update_accepted(iter_data) /\ ~connClosed[i]
           THEN toMaster' = [toMaster EXCEPT ![i] =
                                Append(@, worker_result(procCfg[i], iter_data))]
           ELSE toMaster' = toMaster
    /\ toWorker' = [toWorker EXCEPT ![i] = Tail(@)]
    /\ UNCHANGED <<callVars, wireVars, params, num_workers, gridVars, mainPc, iteration, result, bands,
                   barrierVars, taskVars, procPc, procCfg, connClosed, faulted>>

\* one pass of the worker's while-loop on a received message
WorkerIterate(i) ==
    /\ mode \in {"dist", "worker"} /\ i \in DOMAIN procPc /\ procPc[i] = "running"
    /\ toWorker[i] # << >>
    /\ LET iter_data == Head(toWorker[i])
       IN  IF update_accepted(iter_data) /\ ~connClosed[i]
           THEN /\ toMaster' = [toMaster EXCEPT ![i] =
                                   Append(@, worker_result(procCfg[i], iter_data))]
                /\ procPc' = procPc
           ELSE \* TERMINATE, an unexpected type, a missing key, a receive or
                \* send that raises: the loop ends
                /\ toMaster' = toMaster
                /\ procPc' = [procPc EXCEPT ![i] = "closed"]
    /\ toWorker' = [toWorker EXCEPT ![i] = Tail(@)]
    /\ UNCHANGED <<callVars, wireVars, params, num_workers, gridVars, mainPc, iteration, result, bands,
                   barrierVars, taskVars, procCfg, connClosed, faulted>>

\* receive_pickled_data returns None: the master closed the connection
WorkerRecvClosed(i) ==
    /\ mode \in {"dist", "worker"} /\ i \in DOMAIN procPc /\ procPc[i] = "running"
    /\ toWorker[i] = << >> /\ connClosed[i]
    /\ procPc' = [procPc EXCEPT ![i] = "closed"]
    /\ UNCHANGED <<callVars, wireVars, params, num_workers, gridVars, mainPc, iteration, result, bands,
                   barrierVars, taskVars, procCfg, toWorker, toMaster, connClosed,
                   faulted>>

\* environment: a connected worker process is lost (killed, network down);
\* what it already sent stays readable, what it was sent is dropped
WorkerLost(i) ==
    /\ mode = "dist" /\ i \in DOMAIN procPc
    /\ procPc[i] \in {"await_config", "running"}
    /\ ~connClosed[i]
    /\ procPc' = [procPc EXCEPT ![i] = "closed"]
    /\ toWorker' = [toWorker EXCEPT ![i] = << >>]
    /\ faulted' = TRUE
    /\ UNCHANGED <<callVars, wireVars, params, num_workers, gridVars, mainPc, iteration, result, bands,
                   barrierVars, taskVars, procCfg, toMaster, connClosed>>

\* environment: the peer connected as worker i answers an ITERATION_UPDATE with
\* a response that a HeatDiffusionWorker would not send (at most once in a run)
MalformedResponses ==
    {[type |-> "SUB_GRID_RESULT"], [updated_sub_grid |-> None],
     [type |-> "ITERATION_UPDATE"], UndecodableFrame}

PeerAnswers(i, m) ==
    /\ mode = "dist" /\ i \in DOMAIN procPc /\ procPc[i] = "running"
    /\ ~faulted /\ ~connClosed[i]
    /\ toWorker[i] # << >> /\ msg_type(Head(toWorker[i])) = "ITERATION_UPDATE"
    /\ toWorker' = [toWorker EXCEPT ![i] = Tail(@)]
    /\ toMaster' = [toMaster EXCEPT ![i] = Append(@, m)]
    /\ faulted' = TRUE
    /\ UNCHANGED <<callVars, wireVars, params, num_workers, gridVars, mainPc, iteration, result, bands,
                   barrierVars, taskVars, procPc, procCfg, connClosed>>

\* ------------------------------------------------------ HeatDiffusionMaster
\* the rows [start_r:end_r, :] of a grid, copied
slice_rows(grid, start_r, end_r) ==
    [k \in 0..(end_r - start_r - 1) |-> grid[start_r + k]]

\* a faulty variant that takes the band's own first row as the top halo
halo_top_of_own_row(grid, start_r) ==
    IF start_r > 0 THEN <<grid[start_r]>> ELSE None

\* halo_top = None; if start_r > 0: halo_top = current_global_grid[start_r - 1, :]
halo_top_of(grid, start_r) ==
    IF start_r > 0 THEN <<grid[start_r - 1]>> ELSE None

\* halo_bottom = None; if end_r < grid_size: halo_bottom = current_global_grid[end_r, :]
halo_bottom_of(grid, end_r) ==
    IF end_r < grid_size THEN <<grid[end_r]>> ELSE None

\* a faulty variant whose band test includes end_r
hotspot_relative_inclusive_end(start_r, end_r) ==
    IF hotspot_pos # None /\ start_r <= hotspot_pos[1] /\ hotspot_pos[1] <= end_r
    THEN <<hotspot_pos[1] - start_r, hotspot_pos[2]>>
    ELSE None

\* the hotspot's position relative to the band, when it lies in the band
hotspot_relative(start_r, end_r) ==
    IF hotspot_pos # None /\ start_r <= hotspot_pos[1] /\ hotspot_pos[1] < end_r
    THEN <<hotspot_pos[1] - start_r, hotspot_pos[2]>>
    ELSE None

\* a faulty variant that writes the rows one row too high
write_rows_one_up(grid, start_r, end_r, updated_sub_grid) ==
    [r \in DOMAIN grid |->
        IF start_r - 1 <= r /\ r < end_r - 1
        THEN updated_sub_grid[r - start_r + 1] ELSE grid[r]]

\* self.next_global_grid[start_r:end_r, :] = updated_sub_grid
write_rows(grid, start_r, end_r, updated_sub_grid) ==
    [r \in DOMAIN grid |->
        IF start_r <= r /\ r < end_r THEN updated_sub_grid[r - start_r] ELSE grid[r]]

\* run() up to the accept loop: the partition (ValueError -> return None), listen
MasterRunStart ==
    /\ mode = "dist" /\ mainPc = "start"
    /\ LET total_internal_rows == grid_size - 2
       IN  IF too_many_workers(total_internal_rows, num_workers)
           THEN /\ result' = "none" /\ mainPc' = "done"
                /\ UNCHANGED <<bands, taskVars>>
           ELSE /\ bands' = partition_grid(total_internal_rows, num_workers, 0, 1)
                /\ taskPc' = [i \in 0..(num_workers - 1) |-> "unstarted"]
                /\ taskIter' = [i \in 0..(num_workers - 1) |-> 0]
                /\ taskPos' = [i \in 0..(num_workers - 1) |-> 0]
                /\ taskLocal' = [i \in 0..(num_workers - 1) |-> None]
                /\ taskWrites' = [i \in 0..(num_workers - 1) |-> 0]
                /\ result' = result /\ mainPc' = "accept"
    /\ UNCHANGED <<callVars, wireVars, params, num_workers, gridVars, iteration, barrierVars, netVars>>

\* server_socket.accept() of the i-th worker and the start of its handler thread
MasterAccept(i) ==
    /\ mode = "dist" /\ mainPc = "accept"
    /\ i \in DOMAIN taskPc /\ taskPc[i] = "unstarted"
    /\ \A j \in DOMAIN taskPc : j < i => taskPc[j] # "unstarted"
    /\ procPc[i] = "connecting"
    /\ procPc' = [procPc EXCEPT ![i] = "await_config"]
    /\ taskPc' = [taskPc EXCEPT ![i] = "config"]
    /\ mainPc' = IF i = num_workers - 1 THEN "wait" ELSE "accept"
    /\ UNCHANGED <<callVars, wireVars, params, num_workers, gridVars, iteration, result, bands,
                   barrierVars, taskIter, taskPos, taskLocal, taskWrites, procCfg, toWorker,
                   toMaster, connClosed, faulted>>

\* a faulty variant that sends the configuration twice
HandlerSendConfig_twice(i) ==
    /\ mode = "dist" /\ i \in DOMAIN taskPc /\ taskPc[i] = "config"
    /\ LET config == [type |-> "INITIAL_CONFIG", grid_size_full |-> grid_size,
                      alpha |-> alpha, dt |-> dt, dx |-> dx,
                      boundary_temp |-> boundary_temp]
       IN  toWorker' = [toWorker EXCEPT ![i] =
               IF procPc[i] = "closed" THEN @ ELSE Append(Append(@, config), config)]
    /\ taskPc' = [taskPc EXCEPT ![i] =
                     IF num_iterations > 0 THEN "slice_core" ELSE "finally"]
    /\ UNCHANGED <<callVars, wireVars, params, num_workers, gridVars, mainPc, iteration, result, bands,
                   barrierVars, taskIter, taskPos, taskLocal, taskWrites, procPc, procCfg,
                   toMaster, connClosed, faulted>>

\* send_pickled_data(conn, config); then the for-loop starts or is empty
HandlerSendConfig(i) ==
    /\ mode = "dist" /\ i \in DOMAIN taskPc /\ taskPc[i] = "config"
    /\ toWorker' = [toWorker EXCEPT ![i] =
           IF procPc[i] = "closed" THEN @
           ELSE Append(@, [type |-> "INITIAL_CONFIG", grid_size_full |-> grid_size,
                           alpha |-> alpha, dt |-> dt, dx |-> dx,
                           boundary_temp |-> boundary_temp])]
    /\ taskPc' = [taskPc EXCEPT ![i] =
                     IF num_iterations > 0 THEN "slice_core" ELSE "finally"]
    /\ UNCHANGED <<callVars, wireVars, params, num_workers, gridVars, mainPc, iteration, result, bands,
                   barrierVars, taskIter, taskPos, taskLocal, taskWrites, procPc, procCfg,
                   toMaster, connClosed, faulted>>

\* sub_grid_core = self.current_global_grid[start_r:end_r, :].copy()
HandlerSliceCore(i) ==
    /\ mode = "dist" /\ i \in DOMAIN taskPc /\ taskPc[i] = "slice_core"
    /\ taskLocal' = [taskLocal EXCEPT ![i] =
           [sub_grid_core |-> slice_rows(grids[current_grid], start_of(i), end_of(i)),
            halo_top |-> None]]
    /\ taskPc' = [taskPc EXCEPT ![i] = "slice_top"]
    /\ UNCHANGED <<callVars, wireVars, params, num_workers, gridVars, mainPc, iteration, result, bands,
                   barrierVars, taskIter, taskPos, taskWrites, netVars>>

\* the halo_top statement
HandlerSliceTop(i) ==
    /\ mode = "dist" /\ i \in DOMAIN taskPc /\ taskPc[i] = "slice_top"
    /\ taskLocal' = [taskLocal EXCEPT ![i].halo_top =
                        halo_top_of(grids[current_grid], start_of(i))]
    /\ taskPc' = [taskPc EXCEPT ![i] = "send"]
    /\ UNCHANGED <<callVars, wireVars, params, num_workers, gridVars, mainPc, iteration, result, bands,
                   barrierVars, taskIter, taskPos, taskWrites, netVars>>

\* the halo_bottom statement, hotspot_pos_relative, and send_pickled_data(conn,
\* iter_data); a send to a lost worker is either swallowed by the transport
\* here or raises (HandlerSendError)
HandlerSend(i) ==
    /\ mode = "dist" /\ i \in DOMAIN taskPc /\ taskPc[i] = "send"
    /\ LET iter_data ==
               [type |-> "ITERATION_UPDATE",
                sub_grid |-> taskLocal[i].sub_grid_core,
                halo_top |-> taskLocal[i].halo_top,
                halo_bottom |-> halo_bottom_of(grids[current_grid], end_of(i)),
                hotspot_pos_relative |-> hotspot_relative(start_of(i), end_of(i)),
                hotspot_temp |-> hotspot_temp]
       IN  toWorker' = [toWorker EXCEPT ![i] =
                           IF procPc[i] = "closed" THEN @ ELSE Append(@, iter_data)]
    /\ taskLocal' = [taskLocal EXCEPT ![i] = None]
    /\ taskPc' = [taskPc EXCEPT ![i] = "recv"]
    /\ UNCHANGED <<callVars, wireVars, params, num_workers, gridVars, mainPc, iteration, result, bands,
                   barrierVars, taskIter, taskPos, taskWrites, procPc, procCfg, toMaster,
                   connClosed, faulted>>

\* send_pickled_data raises socket.error: the except clause names pickle and
\* struct, which heat_diffusion_master.py never imports, so evaluating it
\* raises NameError and its body (the abort) is not run; finally runs
HandlerSendError(i) ==
    /\ mode = "dist" /\ i \in DOMAIN taskPc /\ taskPc[i] \in {"config", "send"}
    /\ procPc[i] = "closed"
    /\ taskLocal' = [taskLocal EXCEPT ![i] = None]
    /\ taskPc' = [taskPc EXCEPT ![i] = "finally"]
    /\ UNCHANGED <<callVars, wireVars, params, num_workers, gridVars, mainPc, iteration, result, bands,
                   barrierVars, taskIter, taskPos, taskWrites, netVars>>

\* what lines 156-163 do with a received frame: "raise" when the frame does
\* not unpickle or a key is missing (only finally runs, see HandlerSendError),
\* "break" after the abort of line 160, "write" for a complete SUB_GRID_RESULT
response_outcome(response) ==
    IF ~decodes(response) \/ "type" \notin DOMAIN response THEN "raise"
    ELSE IF response.type # "SUB_GRID_RESULT" THEN "break"
    ELSE IF "updated_sub_grid" \notin DOMAIN response THEN "raise"
    ELSE "write"

\* response = receive_pickled_data(conn) returned a message: a response that is
\* no SUB_GRID_RESULT aborts the barrier and breaks, else the rows are written;
\* a handler that leaves its loop here keeps the local `response` in finally
HandlerRecv(i) ==
    /\ mode = "dist" /\ i \in DOMAIN taskPc /\ taskPc[i] = "recv"
    /\ toMaster[i] # << >>
    /\ LET response == Head(toMaster[i])
           outcome == response_outcome(response)
       IN  IF outcome # "write"
           THEN /\ bState' = IF outcome = "break" THEN "broken" ELSE bState
                /\ taskPc' = [taskPc EXCEPT ![i] = "finally"]
                /\ taskLocal' = [taskLocal EXCEPT ![i] = [response |-> response]]
                /\ grids' = grids /\ taskWrites' = taskWrites
           ELSE /\ bState' = bState
                /\ taskPc' = [taskPc EXCEPT ![i] = "wait"]
                /\ taskLocal' = taskLocal
                /\ taskWrites' = [taskWrites EXCEPT ![i] = @ + 1]
                /\ grids' = [grids EXCEPT ![next_grid] =
                                write_rows(grids[next_grid], start_of(i), end_of(i),
                                           response.updated_sub_grid)]
    /\ toMaster' = [toMaster EXCEPT ![i] = Tail(@)]
    /\ UNCHANGED <<callVars, wireVars, params, num_workers, current_grid, next_grid, mainPc, iteration,
                   result, bands, bParties, bCount, taskIter, taskPos,
                   procPc, procCfg, toWorker, connClosed, faulted>>

\* receive_pickled_data returned None (the worker's end is closed):
\* self.iteration_barrier.abort(); break
HandlerRecvNone(i) ==
    /\ mode = "dist" /\ i \in DOMAIN taskPc /\ taskPc[i] = "recv"
    /\ toMaster[i] = << >> /\ procPc[i] = "closed"
    /\ bState' = "broken"
    /\ taskPc' = [taskPc EXCEPT ![i] = "finally"]
    /\ UNCHANGED <<callVars, wireVars, params, num_workers, gridVars, mainPc, iteration, result, bands,
                   bParties, bCount, taskIter, taskPos, taskLocal, taskWrites, netVars>>

\* receive_pickled_data raised (connection reset, EOFError): as for
\* HandlerSendError only finally runs
HandlerRecvError(i) ==
    /\ mode = "dist" /\ i \in DOMAIN taskPc /\ taskPc[i] = "recv"
    /\ toMaster[i] = << >> /\ procPc[i] = "closed"
    /\ taskPc' = [taskPc EXCEPT ![i] = "finally"]
    /\ UNCHANGED <<callVars, wireVars, params, num_workers, gridVars, mainPc, iteration, result, bands,
                   barrierVars, taskIter, taskPos, taskLocal, taskWrites, netVars>>

\* self.iteration_barrier.wait() of a handler thread; BrokenBarrierError leaves
\* through finally (the except clause cannot be evaluated)
HandlerWait(i) ==
    /\ mode = "dist" /\ i \in DOMAIN taskPc /\ taskPc[i] = "wait"
    /\ BarrierCanEnter
    /\ LET b == barrier_arrive
       IN  /\ bState' = b.state /\ bCount' = b.count
           /\ taskPc' = [taskPc EXCEPT ![i] =
                            CASE b.outcome = "raise" -> "finally"
                              [] b.outcome = "block" -> "blocked"
                              [] OTHER -> after_barrier(i, "slice_core", "finally")]
           /\ taskIter' = [taskIter EXCEPT ![i] =
                              IF b.outcome = "pass" THEN @ + 1 ELSE @]
    /\ UNCHANGED <<callVars, wireVars, params, num_workers, gridVars, mainPc, iteration, result, bands,
                   bParties, taskPos, taskLocal, taskWrites, netVars>>

HandlerWake(i) ==
    /\ mode = "dist" /\ i \in DOMAIN taskPc /\ taskPc[i] = "blocked"
    /\ BarrierCanLeave
    /\ LET b == barrier_leave
       IN  /\ bState' = b.state /\ bCount' = b.count
           /\ taskPc' = [taskPc EXCEPT ![i] =
                            IF b.outcome = "raise" THEN "finally"
                            ELSE after_barrier(i, "slice_core", "finally")]
           /\ taskIter' = [taskIter EXCEPT ![i] =
                              IF b.outcome = "pass" THEN @ + 1 ELSE @]
    /\ UNCHANGED <<callVars, wireVars, params, num_workers, gridVars, mainPc, iteration, result, bands,
                   bParties, taskPos, taskLocal, taskWrites, netVars>>

\* finally: if self.iteration_barrier.n_waiting > 0: abort(); conn.close()
HandlerFinally(i) ==
    /\ mode = "dist" /\ i \in DOMAIN taskPc /\ taskPc[i] = "finally"
    /\ bState' = IF n_waiting > 0 THEN "broken" ELSE bState
    /\ connClosed' = [connClosed EXCEPT ![i] = TRUE]
    /\ taskPc' = [taskPc EXCEPT ![i] = "done"]
    /\ UNCHANGED <<callVars, wireVars, params, num_workers, gridVars, mainPc, iteration, result, bands,
                   bParties, bCount, taskIter, taskPos, taskLocal, taskWrites, procPc, procCfg,
                   toWorker, toMaster, faulted>>

\* self.iteration_barrier.wait() of the main thread
MasterWait ==
    /\ mode = "dist" /\ mainPc = "wait" /\ iteration < num_iterations
    /\ BarrierCanEnter
    /\ LET b == barrier_arrive
       IN  /\ bState' = b.state /\ bCount' = b.count
           /\ mainPc' = CASE b.outcome = "raise" -> "join"
                          [] b.outcome = "block" -> "blocked"
                          [] OTHER -> "swap"
    /\ UNCHANGED <<callVars, wireVars, params, num_workers, gridVars, iteration, result, bands,
                   bParties, taskVars, netVars>>

MasterWake ==
    /\ mode = "dist" /\ mainPc = "blocked"
    /\ BarrierCanLeave
    /\ LET b == barrier_leave
       IN  /\ bState' = b.state /\ bCount' = b.count
           /\ mainPc' = IF b.outcome = "raise" THEN "join" ELSE "swap"
    /\ UNCHANGED <<callVars, wireVars, params, num_workers, gridVars, iteration, result, bands,
                   bParties, taskVars, netVars>>

\* self.current_global_grid, self.next_global_grid = (the other way round)
MasterSwap ==
    /\ mode = "dist" /\ mainPc = "swap"
    /\ current_grid' = next_grid /\ next_grid' = current_grid
    /\ mainPc' = "boundary"
    /\ UNCHANGED <<callVars, wireVars, params, num_workers, grids, iteration, result, bands,
                   barrierVars, taskVars, netVars>>

MasterBoundary ==
    /\ mode = "dist" /\ mainPc = "boundary"
    /\ grids' = [grids EXCEPT ![current_grid] =
                    apply_boundary_conditions(grids[current_grid], boundary_temp)]
    /\ mainPc' = "hotspot"
    /\ UNCHANGED <<callVars, wireVars, params, num_workers, current_grid, next_grid, iteration, result,
                   bands, barrierVars, taskVars, netVars>>

\* if self.hotspot_pos: self.current_global_grid[self.hotspot_pos] = self.hotspot_temp
MasterHotspot ==
    /\ mode = "dist" /\ mainPc = "hotspot"
    /\ grids' = restore_hotspot(grids, current_grid)
    /\ iteration' = iteration + 1
    /\ mainPc' = "wait"
    /\ UNCHANGED <<callVars, wireVars, params, num_workers, current_grid, next_grid, result, bands,
                   barrierVars, taskVars, netVars>>

\* for t in worker_threads: t.join()
MasterJoin ==
    /\ mode = "dist"
    /\ \/ mainPc = "join"
       \/ mainPc = "wait" /\ iteration = num_iterations
    /\ \A i \in DOMAIN taskPc : taskPc[i] = "done"
    /\ mainPc' = "terminate"
    /\ UNCHANGED <<callVars, wireVars, params, num_workers, gridVars, iteration, result, bands,
                   barrierVars, taskVars, netVars>>

\* TERMINATE to every connection (a send on a socket object that was closed
\* raises socket.error, which is caught), server_socket.close(), return the grid
MasterTerminate ==
    /\ mode = "dist" /\ mainPc = "terminate"
    /\ toWorker' = [i \in DOMAIN toWorker |->
                       IF connClosed[i] \/ procPc[i] = "closed" THEN toWorker[i]
                       ELSE Append(toWorker[i], [type |-> "TERMINATE"])]
    /\ result' = "grid" /\ mainPc' = "done"
    /\ UNCHANGED <<callVars, wireVars, params, num_workers, gridVars, iteration, bands, barrierVars,
                   taskVars, procPc, procCfg, toMaster, connClosed, faulted>>

NextDist ==
    \/ MasterRunStart
    \/ \E i \in 0..(MaxWorkers - 1) :
          \/ MasterAccept(i)
          \/ HandlerSendConfig(i) \/ HandlerSliceCore(i) \/ HandlerSliceTop(i)
          \/ HandlerSend(i) \/ HandlerSendError(i)
          \/ HandlerRecv(i) \/ HandlerRecvNone(i) \/ HandlerRecvError(i)
          \/ HandlerWait(i) \/ HandlerWake(i) \/ HandlerFinally(i)
          \/ WorkerRecvConfig(i) \/ WorkerIterate(i) \/ WorkerRecvClosed(i)
          \/ WorkerLost(i)
    \/ MasterWait \/ MasterWake \/ MasterSwap \/ MasterBoundary \/ MasterHotspot
    \/ MasterJoin \/ MasterTerminate

InitSeq == Init /\ mode = "seq"
InitThr == Init /\ mode = "thr"
SpecSeq == InitSeq /\ [][NextSeq]_vars
SpecThr == InitThr /\ [][NextThr]_vars
InitDist == Init /\ mode = "dist"
SpecDist == InitDist /\ [][NextDist]_vars

\* the single thread of the sequential solver keeps running
FairSpecSeq == InitSeq /\ [][NextSeq]_vars /\ WF_vars(NextSeq)

Next == NextSeq \/ NextThr \/ NextDist
Spec == Init /\ [][Next]_vars

\* the worker threads that can run do run; the loss of a worker is not forced
DistProgress ==
    \/ MasterRunStart
    \/ \E i \in 0..(MaxWorkers - 1) :
          \/ MasterAccept(i)
          \/ HandlerSendConfig(i) \/ HandlerSliceCore(i) \/ HandlerSliceTop(i)
          \/ HandlerSend(i) \/ HandlerSendError(i)
          \/ HandlerRecv(i) \/ HandlerRecvNone(i) \/ HandlerRecvError(i)
          \/ HandlerWait(i) \/ HandlerWake(i) \/ HandlerFinally(i)
          \/ WorkerRecvConfig(i) \/ WorkerIterate(i) \/ WorkerRecvClosed(i)
    \/ MasterWait \/ MasterWake \/ MasterSwap \/ MasterBoundary \/ MasterHotspot
    \/ MasterJoin \/ MasterTerminate

FairSpecDist == InitDist /\ [][NextDist]_vars /\ WF_vars(DistProgress)

\* the coordinator with peers that may answer anything
NextPeer ==
    \/ NextDist
    \/ \E i \in 0..(MaxWorkers - 1) : \E m \in MalformedResponses : PeerAnswers(i, m)
SpecPeer == InitDist /\ [][NextPeer]_vars

\* ------------------------------------------------------------------ claims
\* the parameter sets the solvers accept: hotspot position and temperature
\* both given or both absent, the position an interior cell
ValidParameters ==
    /\ hotspot_args_ok
    /\ hotspot_pos # None => IsInterior(hotspot_pos)

\* a worker (or handler) thread has read current_grid in its present loop pass
HasReadCurrent(i) ==
    \/ taskPc[i] = "compute" /\ taskPos[i] > 0
    \/ taskPc[i] \in {"slice_top", "send", "recv", "wait", "blocked"}

\* C1: threaded solver: a worker thread that has read current_grid for its
\* loop pass number taskIter+1 does so only after the main thread has finished
\* swap, border and hotspot of pass number taskIter.
C1_NoReadBeforeSwapDone ==
    mode = "thr" =>
        \A i \in DOMAIN taskPc : HasReadCurrent(i) => iteration >= taskIter[i]

\* C2: distributed coordinator, no worker lost: a handler thread that has
\* sliced current_global_grid for its loop pass number taskIter+1 does so only
\* after the main thread has finished swap, border and hotspot of pass taskIter.
C2_NoSliceBeforeSwapDone ==
    (mode = "dist" /\ ~faulted) =>
        \A i \in DOMAIN taskPc : HasReadCurrent(i) => iteration >= taskIter[i]

\* C3: for valid parameters the threaded solve ends by returning a grid, and
\* that grid equals the grid the sequential solver returns for the same inputs.
C3_ThreadedEqualsSequential ==
    (mode = "thr" /\ mainPc = "done" /\ ValidParameters) =>
        /\ result = "grid"
        /\ grids[current_grid] = sequential_solve(num_iterations)

\* C4: with 1..grid_size-2 workers and no worker lost, the grid returned by the
\* master's run equals the grid the sequential solver returns.
C4_DistributedEqualsSequential ==
    (mode = "dist" /\ result = "grid" /\ ~faulted /\ ValidParameters) =>
        grids[current_grid] = sequential_solve(num_iterations)

\* a handler thread has left its loop before completing num_iterations passes
HandlerLeftEarly(i) ==
    taskPc[i] \in {"finally", "done"} /\ taskIter[i] < num_iterations

AllLeftLoops ==
    /\ mainPc \in {"join", "terminate", "done"}
    /\ \A i \in DOMAIN taskPc : taskPc[i] \in {"finally", "done"}

\* C5: distributed coordinator: once a handler thread has left its loop early
\* (None response, transport error), the main thread and every handler thread
\* eventually leave their loops.
C5_FailureReleasesEveryone ==
    (mode = "dist" /\ \E i \in DOMAIN taskPc : HandlerLeftEarly(i)) ~> AllLeftLoops

\* C6: threaded solver: when a party has hit a fatal error during an iteration
\* (the main thread's AttributeError), the barrier has been aborted.
C6_FatalErrorAbortsBarrier ==
    (mode = "thr" /\ result = "AttributeError") => bState = "broken"

\* C7: distributed run that ended early after a worker was lost: the returned
\* grid is the global state after exactly the completed iterations.
C7_AbortReturnsLastCompleted ==
    (mode = "dist" /\ result = "grid" /\ faulted /\ iteration < num_iterations
        /\ ValidParameters) =>
        grids[current_grid] = sequential_solve(iteration)

\* band i has finished writing its results of the main thread's present pass
BandWritten(i) == taskWrites[i] >= iteration + 1

\* C8: in both concurrent modes, when the main thread is about to swap the
\* buffers of an iteration, every band has completed its writes of that
\* iteration into next.
C8_SwapAfterAllWrites ==
    (mode \in {"thr", "dist"} /\ mainPc = "swap") =>
        \A i \in DOMAIN taskPc : BandWritten(i)

C8_Witness ==
    mode = "dist" /\ mainPc = "swap" /\ iteration = 1 /\ num_workers = 2

BorderOK(grid) ==
    \A r \in DOMAIN grid : \A col \in DOMAIN grid[r] :
        (r = 0 \/ r = grid_size - 1 \/ col = 0 \/ col = grid_size - 1)
            => grid[r][col] = boundary_temp

\* the main thread is not inside its swap / border / hotspot step
BetweenIterations == mainPc \notin {"swap", "boundary", "fragment", "hotspot"}

\* C9: in every solver variant, after every completed iteration every border
\* cell of the current grid equals boundary_temp.
C9_BorderInvariant ==
    (iteration >= 1 /\ BetweenIterations /\ ValidParameters) =>
        BorderOK(grids[current_grid])

C9_Witness ==
    mode = "dist" /\ iteration = 2 /\ mainPc = "done" /\ num_workers = 2

\* C10: sequential solver and distributed coordinator with a hotspot: from the
\* start of the run on, the hotspot cell of the current grid equals
\* hotspot_temp in every state, so no stencil result at that cell ever becomes
\* part of current, and it holds in particular after every completed iteration.
C10_HotspotInvariant ==
    (mode \in {"seq", "dist"} /\ hotspot_pos # None /\ ValidParameters
        /\ mainPc # "start") =>
        grids[current_grid][hotspot_pos[1]][hotspot_pos[2]] = hotspot_temp[1]

C10_Witness ==
    mode = "seq" /\ hotspot_pos # None /\ iteration = 2 /\ mainPc = "done"

\* C11: threaded solver with a hotspot: when solve has ended, it has returned
\* the grid after all num_iterations iterations, and the hotspot cell of the
\* current grid equals hotspot_temp.
C11_ThreadedHotspotRunCompletes ==
    (mode = "thr" /\ hotspot_pos # None /\ ValidParameters /\ mainPc = "done") =>
        /\ result = "grid"
        /\ iteration = num_iterations
        /\ grids[current_grid][hotspot_pos[1]][hotspot_pos[2]] = hotspot_temp[1]

\* ------------------------------------------- partitioning as a pure function
\* The two row splits applied to every (grid_size, worker count) of a larger
\* input domain: _partition_grid of the master, and the thread-count reduction
\* followed by the row split of the threaded solve.
InitPartition ==
    /\ mode = "partition"
    /\ grid_size \in 3..MaxPartitionGridSize
    /\ num_workers \in 1..MaxPartitionWorkers
    /\ alpha \in Alphas /\ dt \in Dts /\ dx \in Dxs
    /\ c = diffusion_factor(alpha, dt, dx)
    /\ boundary_temp \in BoundaryTemps
    /\ initial_temp \in InitialTemps
    /\ hotspot_pos = None /\ hotspot_temp = None
    /\ num_iterations = 0
    /\ grids = constructed_grids(grid_size, initial_temp, boundary_temp)
    /\ current_grid = "A" /\ next_grid = "B"
    /\ mainPc = "start" /\ iteration = 0 /\ result = "pending"
    /\ bands = << >>
    /\ bParties = 0 /\ bState = "filling" /\ bCount = 0
    /\ taskPc = << >> /\ taskIter = << >> /\ taskPos = << >> /\ taskLocal = << >>
    /\ taskWrites = << >>
    /\ procPc = << >> /\ procCfg = << >> /\ toWorker = << >> /\ toMaster = << >>
    /\ connClosed = << >>
    /\ faulted = FALSE
    /\ WireUnused
    /\ returnedGrids = << >> /\ swapLoaded = None

\* HeatDiffusionMaster._partition_grid: ValueError when there are more workers
\* than interior rows, else worker_info holds the bands
PartitionMaster ==
    /\ mode = "partition" /\ mainPc = "start"
    /\ LET total_internal_rows == grid_size - 2
       IN  IF too_many_workers(total_internal_rows, num_workers)
           THEN result' = "ValueError" /\ bands' = bands
           ELSE /\ result' = "worker_info"
                /\ bands' = partition_grid(total_internal_rows, num_workers, 0, 1)
    /\ mainPc' = "done"
    /\ UNCHANGED <<callVars, wireVars, params, num_workers, gridVars, iteration, barrierVars, taskVars,
                   netVars>>

\* the threaded solve: num_threads reduced to the interior rows, then the split
PartitionThreads ==
    /\ mode = "partition" /\ mainPc = "start"
    /\ LET total_internal_rows == grid_size - 2
           n == reduced_threads(num_workers, total_internal_rows)
       IN  /\ num_workers' = n
           /\ bands' = thread_rows(total_internal_rows, n, 0, 1)
    /\ result' = "threads"
    /\ mainPc' = "done"
    /\ UNCHANGED <<callVars, wireVars, params, gridVars, iteration, barrierVars, taskVars, netVars>>

NextPartition == PartitionMaster \/ PartitionThreads
SpecPartition == InitPartition /\ [][NextPartition]_vars

\* the rows of a band <<start_row, end_row>> (end exclusive)
RowsOf(band) == band[1]..(band[2] - 1)

\* C12: the bands of a split into N <= R parts are non-empty, in increasing
\* row order, pairwise disjoint, contiguous, and their union is exactly the
\* interior rows 1..R (R = grid_size - 2).
C12_PartitionCoverage ==
    bands # << >> =>
        /\ Len(bands) = num_workers
        /\ \A i \in 1..Len(bands) : RowsOf(bands[i]) # {}
        /\ \A i, j \in 1..Len(bands) :
              i < j => /\ RowsOf(bands[i]) \cap RowsOf(bands[j]) = {}
                       /\ \A x \in RowsOf(bands[i]) : \A y \in RowsOf(bands[j]) : x < y
        /\ \A i \in 2..Len(bands) : bands[i][1] = bands[i - 1][2]
        /\ UNION {RowsOf(bands[i]) : i \in 1..Len(bands)} = 1..(grid_size - 2)

C12_Witness ==
    /\ mode = "partition" /\ result = "threads"
    /\ grid_size = 7 /\ Len(bands) = 3

\* the band sizes and positions the policy prescribes for (R, N)
ExpectedSize(R, N, i) == (R \div N) + (IF i < R % N THEN 1 ELSE 0)
ExpectedStart(R, N, i) == 1 + i * (R \div N) + (IF i < R % N THEN i ELSE R % N)

\* C13: band i (from 0) has floor(R/N)+1 rows when i < R mod N and floor(R/N)
\* rows otherwise, so sizes differ by at most one with the larger bands first,
\* and the bands are the one list determined by (R, N).
C13_PartitionBalance ==
    bands # << >> =>
        LET R == grid_size - 2
            N == Len(bands)
        IN  /\ \A i \in 0..(N - 1) :
                  /\ bands[i + 1][2] - bands[i + 1][1] = ExpectedSize(R, N, i)
                  /\ bands[i + 1][1] = ExpectedStart(R, N, i)
            /\ \A i, j \in 0..(N - 1) :
                  i < j => LET si == bands[i + 1][2] - bands[i + 1][1]
                               sj == bands[j + 1][2] - bands[j + 1][1]
                           IN  sj <= si /\ si <= sj + 1

C13_Witness ==
    /\ mode = "partition" /\ result = "worker_info"
    /\ grid_size = 7 /\ Len(bands) = 3
    /\ bands[1][2] - bands[1][1] = 2 /\ bands[3][2] - bands[3][1] = 1

\* the master's listening socket exists: from socket()/bind()/listen() at the
\* start of run() until server_socket.close() before the return
server_listening ==
    /\ mode = "dist"
    /\ mainPc \in {"accept", "wait", "blocked", "swap", "boundary", "hotspot",
                   "join", "terminate"}

\* C14: a distributed run with more workers than interior rows is rejected
\* before dispatch: in every state of such a run there is no band, no listening
\* socket, no accepted worker connection, no handler thread and no message, and
\* once run() has ended it has returned None.
C14_TooManyWorkersRejected ==
    (mode = "dist" /\ num_workers > grid_size - 2) =>
        /\ bands = << >>
        /\ ~server_listening
        /\ taskPc = << >>
        /\ \A i \in DOMAIN procPc : procPc[i] = "connecting" /\ toWorker[i] = << >>
        /\ mainPc \in {"start", "done"}
        /\ mainPc = "done" => result = "none"

C14_Witness ==
    /\ mode = "dist" /\ grid_size = 3 /\ num_workers = 2
    /\ mainPc = "done" /\ result = "none"

\* the smaller of two numbers
Min(a, b) == IF a <= b THEN a ELSE b

\* C15: threaded solver: the step that starts the worker threads starts
\* min(num_threads, grid_size-2) of them, creates the barrier with that number
\* plus one parties, and gives every started thread at least one row.
C15_ThreadCountReduced ==
    [][(mode = "thr" /\ mainPc = "start" /\ mainPc' = "wait") =>
          LET n == Min(num_workers, grid_size - 2)
          IN  /\ DOMAIN taskPc' = 0..(n - 1)
              /\ Len(bands') = n
              /\ bParties' = n + 1
              /\ \A i \in 1..Len(bands') : bands'[i][2] - bands'[i][1] >= 1]_vars

C15_Witness ==
    /\ mode = "thr" /\ mainPc = "wait" /\ grid_size = 3
    /\ Len(bands) = 1 /\ bParties = 2 /\ bands[1] = <<1, 2>>

\* the sequential solve has returned its grid
SeqReturned == mode = "seq" /\ mainPc = "done" /\ result = "grid"

\* C16: the sequential solve terminates; when it has returned, it has done
\* exactly num_iterations steps, the returned buffer is the one that is current
\* after the last swap (the buffers alternate from "A"), it holds the state
\* after num_iterations steps, and with num_iterations = 0 the re-initialised
\* grid.
C16_SequentialTerminatesExactly ==
    /\ <>(mode = "seq" /\ mainPc = "done")
    /\ [](SeqReturned =>
            /\ iteration = num_iterations
            /\ current_grid = (IF num_iterations % 2 = 0 THEN "A" ELSE "B")
            /\ grids[current_grid] = sequential_solve(num_iterations)
            /\ num_iterations = 0 =>
                  grids[current_grid] =
                      initialize_simulation_state(
                          constructed_grids(grid_size, initial_temp, boundary_temp),
                          "A", "B", initial_temp).grids["A"])

C16_Witness ==
    SeqReturned /\ num_iterations = 3 /\ iteration = 3 /\ current_grid = "B"

\* ------------------------------------------------ the stencil on a 5x5 grid
\* Sequential runs of at most one iteration on a 5x5 grid, temperatures in
\* hundredths of a degree, with c = 1 (dx = 1) and c = 1/100 (dx = 10).
StencilTemps == {1000, 2000}
StencilHotspotTemps == {3000}
StencilDxs == {1, 10}
StencilGridSizes == {5}
StencilIterations == {0, 1}

InitStencil ==
    /\ mode = "seq"
    /\ grid_size \in StencilGridSizes
    /\ alpha \in Alphas /\ dt \in Dts /\ dx \in StencilDxs
    /\ c = diffusion_factor(alpha, dt, dx)
    /\ boundary_temp \in BoundaryTemps
    /\ initial_temp \in StencilTemps
    /\ hotspot_pos \in HotspotChoices(grid_size)
    /\ hotspot_temp \in (IF hotspot_pos = None THEN {None}
                         ELSE {<<t>> : t \in StencilHotspotTemps})
    /\ num_iterations \in StencilIterations
    /\ num_workers = 1
    /\ grids = constructed_grids(grid_size, initial_temp, boundary_temp)
    /\ current_grid = "A" /\ next_grid = "B"
    /\ mainPc = "start" /\ iteration = 0 /\ result = "pending"
    /\ bands = << >>
    /\ bParties = 0 /\ bState = "filling" /\ bCount = 0
    /\ taskPc = << >> /\ taskIter = << >> /\ taskPos = << >> /\ taskLocal = << >>
    /\ taskWrites = << >>
    /\ procPc = << >> /\ procCfg = << >> /\ toWorker = << >> /\ toMaster = << >>
    /\ connClosed = << >>
    /\ faulted = FALSE
    /\ WireUnused
    /\ returnedGrids = << >> /\ swapLoaded = None

SpecStencil == InitStencil /\ [][NextSeq]_vars

IsHotspot(r, col) == hotspot_pos # None /\ hotspot_pos[1] = r /\ hotspot_pos[2] = col

\* the run of the scenario: 5x5, initial 20.00, border 0, c = 1/100, no hotspot,
\* one iteration, returned
StencilScenario ==
    /\ SeqReturned
    /\ grid_size = 5 /\ initial_temp = 2000 /\ boundary_temp = 0
    /\ c = <<1, 100>> /\ hotspot_pos = None /\ num_iterations = 1

\* C17: a sweep of the sequential solver leaves the current buffer as it was
\* and gives every interior non-hotspot cell of next the stencil value computed
\* from the values current held before the sweep; in the scenario the returned
\* grid has 19.60 at the four corner cells of the interior, 19.80 at the four
\* edge cells of the interior and 20.00 at the centre.
C17_PureDoubleBufferedStencil ==
    /\ [][(mode = "seq" /\ mainPc = "sweep" /\ mainPc' = "swap") =>
             /\ grids'[current_grid] = grids[current_grid]
             /\ \A r, col \in 1..(grid_size - 2) :
                   ~IsHotspot(r, col) =>
                       grids'[next_grid][r][col] = update_cell(r, col, grids[current_grid])]_vars
    /\ [](StencilScenario =>
             LET g == grids[current_grid]
             IN  /\ \A r, col \in {1, 3} : g[r][col] = 1960
                 /\ g[1][2] = 1980 /\ g[2][1] = 1980 /\ g[2][3] = 1980 /\ g[3][2] = 1980
                 /\ g[2][2] = 2000)

C17_Witness == StencilScenario /\ grids[current_grid][1][1] = 1960

\* the ITERATION_UPDATE messages sent to worker i and not yet taken by it
UpdatesInFlight(i) ==
    Cardinality({k \in 1..Len(toWorker[i]) : toWorker[i][k].type = "ITERATION_UPDATE"})

\* what is in flight on connection i respects the protocol order
ConnectionOrdered(i) ==
    /\ \A k \in 1..Len(toWorker[i]) :
          toWorker[i][k].type = "INITIAL_CONFIG" => k = 1 /\ procPc[i] = "await_config"
    /\ UpdatesInFlight(i) + Len(toMaster[i]) <= 1
    /\ \A k \in 1..Len(toMaster[i]) : toMaster[i][k].type = "SUB_GRID_RESULT"
    /\ (i \in DOMAIN taskPc /\ taskPc[i] \in {"unstarted", "config"}) =>
          toWorker[i] = << >> /\ toMaster[i] = << >>
    /\ i \notin DOMAIN taskPc => toWorker[i] = << >> /\ toMaster[i] = << >>

\* a step's sends on connection i respect the protocol order
SendsOrdered(i) ==
    /\ Len(toWorker'[i]) > Len(toWorker[i]) =>
          /\ Len(toWorker'[i]) = Len(toWorker[i]) + 1
          /\ LET m == toWorker'[i][Len(toWorker'[i])]
             IN  \/ m.type = "INITIAL_CONFIG" /\ taskPc[i] = "config"
                 \/ m.type = "ITERATION_UPDATE" /\ taskPc[i] = "send"
                        /\ toMaster[i] = << >>
                 \/ m.type = "TERMINATE" /\ mainPc = "terminate"
    /\ (i \in DOMAIN taskPc /\ i \in DOMAIN taskPc' /\ taskPc[i] # "config"
            /\ taskPc[i] # "unstarted") => taskPc'[i] # "config"
    /\ Len(toMaster'[i]) > Len(toMaster[i]) =>
          /\ Len(toMaster'[i]) = Len(toMaster[i]) + 1
          /\ toWorker[i] # << >>
          /\ Head(toWorker[i]).type = "ITERATION_UPDATE"
          /\ toWorker'[i] = Tail(toWorker[i])
    /\ (/\ procPc[i] = "running" /\ procPc'[i] = "running"
        /\ toWorker[i] # << >> /\ toWorker'[i] = Tail(toWorker[i])) =>
          /\ Head(toWorker[i]).type = "ITERATION_UPDATE"
          /\ Len(toMaster'[i]) = Len(toMaster[i]) + 1

\* C18: on every coordinator-worker connection INITIAL_CONFIG is sent once and
\* first, an ITERATION_UPDATE is sent only when the result of the previous one
\* has been received, and the worker sends exactly one SUB_GRID_RESULT for each
\* ITERATION_UPDATE it takes and nothing else.
C18_MessageOrder ==
    /\ [](mode = "dist" => \A i \in DOMAIN toWorker : ConnectionOrdered(i))
    /\ [][mode = "dist" => \A i \in DOMAIN toWorker : SendsOrdered(i)]_vars

C18_Witness ==
    /\ mode = "dist" /\ num_workers = 2 /\ ~faulted
    /\ 1 \in DOMAIN taskPc
    /\ taskIter[1] = 1 /\ taskPc[1] = "recv" /\ UpdatesInFlight(1) = 1

\* C19: in a run without a lost worker the coordinator's final step puts one
\* TERMINATE on every worker connection, and a worker leaves its Running loop
\* only by taking a TERMINATE.
C19_TerminateEndsWorkers ==
    [][(mode = "dist" /\ ~faulted') =>
          /\ (mainPc = "terminate" /\ mainPc' = "done") =>
                \A i \in DOMAIN toWorker :
                    /\ Len(toWorker'[i]) = Len(toWorker[i]) + 1
                    /\ toWorker'[i][Len(toWorker'[i])].type = "TERMINATE"
          /\ \A i \in DOMAIN procPc :
                (procPc[i] = "running" /\ procPc'[i] = "closed") =>
                    /\ toWorker[i] # << >>
                    /\ Head(toWorker[i]).type = "TERMINATE"]_vars

\* ------------------------------------- a worker process against any peer
\* HeatDiffusionWorker.run() from the moment it is connected, with a peer
\* that may send any message of the protocol in any order, take the worker's
\* answers, and close the connection.
PeerTemps == {4, 8}
PeerRow(v) == [col \in 0..2 |-> IF col = 1 THEN v ELSE 0]
PeerHalos == {None, <<PeerRow(0)>>}

PeerMessages ==
    {[type |-> "INITIAL_CONFIG", grid_size_full |-> 3, alpha |-> a, dt |-> t,
      dx |-> x, boundary_temp |-> b] :
         a \in Alphas, t \in Dts, x \in Dxs, b \in BoundaryTemps}
    \cup {[type |-> "ITERATION_UPDATE", sub_grid |-> [r \in {0} |-> PeerRow(v)],
           halo_top |-> h1, halo_bottom |-> h2,
           hotspot_pos_relative |-> None, hotspot_temp |-> None] :
              v \in PeerTemps, h1 \in PeerHalos, h2 \in PeerHalos}
    \cup {[type |-> "TERMINATE"], [type |-> "SUB_GRID_RESULT"],
          [type |-> "ITERATION_UPDATE"], UndecodableFrame}

InitWorker ==
    /\ mode = "worker"
    /\ grid_size = 3
    /\ alpha \in Alphas /\ dt \in Dts /\ dx \in Dxs
    /\ c = diffusion_factor(alpha, dt, dx)
    /\ boundary_temp \in BoundaryTemps
    /\ initial_temp \in InitialTemps
    /\ hotspot_pos = None /\ hotspot_temp = None
    /\ num_iterations = 0
    /\ num_workers = 1
    /\ grids = constructed_grids(grid_size, initial_temp, boundary_temp)
    /\ current_grid = "A" /\ next_grid = "B"
    /\ mainPc = "start" /\ iteration = 0 /\ result = "pending"
    /\ bands = << >>
    /\ bParties = 0 /\ bState = "filling" /\ bCount = 0
    /\ taskPc = << >> /\ taskIter = << >> /\ taskPos = << >> /\ taskLocal = << >>
    /\ taskWrites = << >>
    /\ procPc = [i \in {0} |-> "await_config"]
    /\ procCfg = [i \in {0} |-> None]
    /\ toWorker = [i \in {0} |-> << >>]
    /\ toMaster = [i \in {0} |-> << >>]
    /\ connClosed = [i \in {0} |-> FALSE]
    /\ faulted = FALSE
    /\ WireUnused
    /\ returnedGrids = << >> /\ swapLoaded = None

\* the peer sends a message
PeerSend(i, m) ==
    /\ mode = "worker" /\ procPc[i] # "closed" /\ ~connClosed[i]
    /\ Len(toWorker[i]) + Len(toMaster[i]) < MaxInFlight
    /\ toWorker' = [toWorker EXCEPT ![i] = Append(@, m)]
    /\ UNCHANGED <<callVars, wireVars, params, num_workers, gridVars, mainPc, iteration, result, bands,
                   barrierVars, taskVars, procPc, procCfg, toMaster, connClosed, faulted>>

\* the peer takes the worker's oldest answer
PeerRecv(i) ==
    /\ mode = "worker" /\ toMaster[i] # << >>
    /\ toMaster' = [toMaster EXCEPT ![i] = Tail(@)]
    /\ UNCHANGED <<callVars, wireVars, params, num_workers, gridVars, mainPc, iteration, result, bands,
                   barrierVars, taskVars, procPc, procCfg, toWorker, connClosed, faulted>>

\* the peer closes the connection
PeerClose(i) ==
    /\ mode = "worker" /\ ~connClosed[i]
    /\ connClosed' = [connClosed EXCEPT ![i] = TRUE]
    /\ UNCHANGED <<callVars, wireVars, params, num_workers, gridVars, mainPc, iteration, result, bands,
                   barrierVars, taskVars, procPc, procCfg, toWorker, toMaster, faulted>>

NextWorker ==
    \/ \E m \in PeerMessages : PeerSend(0, m)
    \/ PeerRecv(0) \/ PeerClose(0)
    \/ WorkerRecvConfig(0) \/ WorkerIterate(0) \/ WorkerRecvClosed(0)

SpecWorker == InitWorker /\ [][NextWorker]_vars

\* the worker's first receive yields no INITIAL_CONFIG
BadFirstMessage(i) ==
    toWorker[i] = << >> \/ msg_type(Head(toWorker[i])) # "INITIAL_CONFIG"

\* C20: a worker whose first receive yields nothing (connection closed) or a
\* message that is no INITIAL_CONFIG ends closed in that step without entering
\* Running, computing or sending; a worker without a configuration has never
\* sent a message, and a closed worker stays closed and sends nothing.
C20_ProtocolViolationOnFirstMessage ==
    /\ [](\A i \in DOMAIN procPc :
             procCfg[i] = None => procPc[i] # "running" /\ toMaster[i] = << >>)
    /\ [][\A i \in DOMAIN procPc :
             /\ (procPc[i] = "await_config" /\ procPc'[i] # "await_config"
                     /\ BadFirstMessage(i)) =>
                    /\ procPc'[i] = "closed"
                    /\ procCfg'[i] = None
                    /\ toMaster'[i] = toMaster[i]
             /\ procPc[i] = "closed" =>
                    /\ procPc'[i] = "closed"
                    /\ Len(toMaster'[i]) <= Len(toMaster[i])]_vars

C20_Witness ==
    /\ mode = "worker" /\ procPc[0] = "closed" /\ procCfg[0] = None
    /\ ~connClosed[0] /\ toMaster[0] = << >>

\* a worker in Running is about to leave its loop: its receive yields None,
\* raises, or yields a message it does not process, or its answer cannot be sent
LoopExitCase(i) ==
    /\ procPc[i] = "running"
    /\ IF toWorker[i] = << >> THEN connClosed[i]
       ELSE ~update_accepted(Head(toWorker[i])) \/ connClosed[i]

\* the worker process i takes a step
WorkerStep(i) ==
    \/ procPc'[i] # procPc[i]
    \/ Len(toWorker'[i]) < Len(toWorker[i])

\* C21: a Running worker whose receive yields None (connection closed),
\* TERMINATE, a message of unexpected type or with a missing key, or raises,
\* ends closed by its next step without sending; a closed worker never leaves
\* closed (no reconnect, no retry) and sends nothing more.
C21_RunningWorkerExits ==
    [][\A i \in DOMAIN procPc :
          /\ (LoopExitCase(i) /\ WorkerStep(i)) =>
                 /\ procPc'[i] = "closed"
                 /\ toMaster'[i] = toMaster[i]
          /\ procPc[i] = "closed" =>
                 /\ procPc'[i] = "closed"
                 /\ \/ toMaster'[i] = toMaster[i]
                    \/ toMaster[i] # << >> /\ toMaster'[i] = Tail(toMaster[i])]_vars

C21_Witness ==
    /\ mode = "worker" /\ procPc[0] = "closed" /\ procCfg[0] # None
    /\ ~connClosed[0] /\ toWorker[0] # << >>

\* a decoded message that its receiver must treat as a protocol violation
ViolatesAtCoordinator(m) == decodes(m) /\ response_outcome(m) # "write"
ViolatesAtWorker(m) ==
    decodes(m) /\ ~update_accepted(m) /\ msg_type(m) # "TERMINATE"

\* C22: a message of unexpected type or without a required key is fatal for
\* its receiver: a Running worker that takes one ends closed without
\* answering; a handler thread that takes one writes no row and leaves its
\* loop, and when that handler thread ends the shared barrier is broken.
C22_ProtocolViolationIsFatal ==
    [][/\ \A i \in DOMAIN taskPc :
             /\ (/\ taskPc[i] = "recv" /\ taskPc'[i] # "recv"
                 /\ toMaster[i] # << >>
                 /\ ViolatesAtCoordinator(Head(toMaster[i]))) =>
                     /\ grids' = grids
                     /\ taskPc'[i] = "finally"
             /\ (/\ taskPc[i] = "finally" /\ taskPc'[i] = "done"
                 /\ "response" \in DOMAIN taskLocal[i]
                 /\ ViolatesAtCoordinator(taskLocal[i].response)) =>
                     bState' = "broken"
       /\ \A i \in DOMAIN procPc :
             (/\ procPc[i] = "running" /\ WorkerStep(i)
              /\ toWorker[i] # << >>
              /\ ViolatesAtWorker(Head(toWorker[i]))) =>
                  /\ procPc'[i] = "closed"
                  /\ toMaster'[i] = toMaster[i]]_vars

\* ---------------------------------- shared_utils: frames on a byte stream
\* One direction of a connection, byte by byte.  A message is a record of its
\* type and its fields; a field is None or the byte contents of its value.
\* pickle is modelled as a self-delimiting encoding: one byte for the type,
\* then per field the opcode for None (78) or the opcode 93, a length byte and
\* the contents.
WireFields(type) ==
    CASE type = "INITIAL_CONFIG" ->
             <<"grid_size_full", "alpha", "dt", "dx", "boundary_temp">>
      [] type = "ITERATION_UPDATE" ->
             <<"sub_grid", "halo_top", "halo_bottom", "hotspot_pos_relative",
               "hotspot_temp">>
      [] type = "SUB_GRID_RESULT" -> <<"updated_sub_grid">>
      [] OTHER -> << >>

WireTypes == <<"INITIAL_CONFIG", "ITERATION_UPDATE", "SUB_GRID_RESULT", "TERMINATE">>
type_tag(type) == CHOOSE t \in 1..Len(WireTypes) : WireTypes[t] = type

\* the messages offered to send_pickled_data
WireMessages ==
    {[type |-> "INITIAL_CONFIG", grid_size_full |-> <<3>>, alpha |-> <<1>>,
      dt |-> <<1>>, dx |-> <<1>>, boundary_temp |-> <<0>>]}
    \cup {[type |-> "ITERATION_UPDATE", sub_grid |-> <<0, 4, 0>>,
           halo_top |-> h1, halo_bottom |-> h2,
           hotspot_pos_relative |-> hp, hotspot_temp |-> <<8>>] :
              h1 \in {None, <<0, 0, 0>>}, h2 \in {None, <<0, 4, 0>>},
              hp \in {None, <<0, 1>>}}
    \cup {[type |-> "SUB_GRID_RESULT", updated_sub_grid |-> <<0, 4, 0>>],
          [type |-> "TERMINATE"]}

dump_value(v) == IF v = None THEN <<78>> ELSE <<93, Len(v)>> \o v

RECURSIVE dump_fields(_, _, _)
dump_fields(m, names, k) ==
    IF k > Len(names) THEN << >>
    ELSE dump_value(m[names[k]]) \o dump_fields(m, names, k + 1)

\* pickle.dumps(data)
pickle_dumps(m) == <<type_tag(m.type)>> \o dump_fields(m, WireFields(m.type), 1)

UnpicklingError == [raised |-> "UnpicklingError"]

\* one value at position pos of the payload, and the position after it
load_value(data, pos) ==
    IF pos > Len(data) THEN [ok |-> FALSE]
    ELSE IF data[pos] = 78 THEN [ok |-> TRUE, value |-> None, next |-> pos + 1]
    ELSE IF data[pos] = 93 /\ pos + 1 <= Len(data)
                           /\ pos + 1 + data[pos + 1] <= Len(data)
    THEN [ok |-> TRUE,
          value |-> SubSeq(data, pos + 2, pos + 1 + data[pos + 1]),
          next |-> pos + 2 + data[pos + 1]]
    ELSE [ok |-> FALSE]

RECURSIVE load_fields(_, _, _, _, _)
load_fields(data, pos, names, k, acc) ==
    IF k > Len(names)
    THEN (IF pos = Len(data) + 1 THEN acc ELSE UnpicklingError)
    ELSE LET v == load_value(data, pos)
         IN  IF ~v.ok THEN UnpicklingError
             ELSE load_fields(data, v.next, names, k + 1,
                              acc @@ (names[k] :> v.value))

\* pickle.loads(data_buffer)
pickle_loads(data) ==
    IF data = << >> \/ data[1] \notin 1..Len(WireTypes) THEN UnpicklingError
    ELSE LET type == WireTypes[data[1]]
         IN  load_fields(data, 2, WireFields(type), 1, ("type" :> type))

\* a faulty variant that writes the length least significant byte first
struct_pack_little_endian(n) ==
    <<n % 256, (n \div 256) % 256, (n \div 65536) % 256, (n \div 16777216) % 256>>

\* struct.pack("!I", n): 4 bytes, most significant first
struct_pack(n) ==
    <<(n \div 16777216) % 256, (n \div 65536) % 256, (n \div 256) % 256, n % 256>>

\* struct.unpack("!I", length_prefix)[0]
struct_unpack(b) == ((b[1] * 256 + b[2]) * 256 + b[3]) * 256 + b[4]

\* length_prefix + serialized_data
frame(m) == struct_pack(Len(pickle_dumps(m))) \o pickle_dumps(m)

\* the first n bytes of a stream (fewer if it is shorter) and the rest
take(bytes, n) == SubSeq(bytes, 1, IF n < Len(bytes) THEN n ELSE Len(bytes))
drop(bytes, n) == SubSeq(bytes, n + 1, Len(bytes))

InitWire ==
    /\ mode = "wire"
    /\ grid_size = 3
    /\ alpha \in Alphas /\ dt \in Dts /\ dx \in Dxs
    /\ c = diffusion_factor(alpha, dt, dx)
    /\ boundary_temp \in BoundaryTemps
    /\ initial_temp \in InitialTemps
    /\ hotspot_pos = None /\ hotspot_temp = None
    /\ num_iterations = 0
    /\ num_workers = 1
    /\ grids = constructed_grids(grid_size, initial_temp, boundary_temp)
    /\ current_grid = "A" /\ next_grid = "B"
    /\ mainPc = "start" /\ iteration = 0 /\ result = "pending"
    /\ bands = << >>
    /\ bParties = 0 /\ bState = "filling" /\ bCount = 0
    /\ taskPc = << >> /\ taskIter = << >> /\ taskPos = << >> /\ taskLocal = << >>
    /\ taskWrites = << >>
    /\ procPc = << >> /\ procCfg = << >>
    /\ toWorker = << >> /\ toMaster = << >>
    /\ connClosed = << >>
    /\ faulted = FALSE
    /\ WireUnused
    /\ returnedGrids = << >> /\ swapLoaded = None

solverVars == <<callVars, params, num_workers, gridVars, mainPc, iteration, result, bands,
                barrierVars, taskVars, netVars>>

\* send_pickled_data(sock, data): sendall puts the whole frame on the stream
WireSend(m) ==
    /\ mode = "wire" /\ ~wireClosed /\ Len(sentLog) < MaxWireMessages
    /\ wire' = wire \o frame(m)
    /\ sentLog' = Append(sentLog, m)
    /\ UNCHANGED <<solverVars, wireClosed, recvLog, receiver>>

\* the sending end closes the connection between two frames
WireClose ==
    /\ mode = "wire" /\ ~wireClosed
    /\ wireClosed' = TRUE
    /\ UNCHANGED <<solverVars, wire, sentLog, recvLog, receiver>>

\* environment: the sending process dies inside sendall, after k bytes of a frame
WireCut(m, k) ==
    /\ mode = "wire" /\ ~wireClosed /\ Len(sentLog) < MaxWireMessages
    /\ 0 < k /\ k < Len(frame(m))
    /\ wire' = wire \o take(frame(m), k)
    /\ wireClosed' = TRUE
    /\ UNCHANGED <<solverVars, sentLog, recvLog, receiver>>

\* length_prefix = sock.recv(4, socket.MSG_WAITALL) and the two tests on it:
\* the call returns when 4 bytes are there or the stream has ended
RecvPrefix ==
    /\ mode = "wire" /\ receiver.pc = "idle"
    /\ Len(wire) >= 4 \/ wireClosed
    /\ LET length_prefix == take(wire, 4)
       IN  /\ wire' = drop(wire, 4)
           /\ IF length_prefix = << >>
              THEN /\ recvLog' = Append(recvLog, [returned |-> None])
                   /\ receiver' = [pc |-> "ended", length |-> 0]
              ELSE IF Len(length_prefix) < 4
              THEN /\ recvLog' = Append(recvLog, [raised |-> "EOFError", at |-> "prefix"])
                   /\ receiver' = [pc |-> "ended", length |-> 0]
              ELSE /\ recvLog' = recvLog
                   /\ receiver' = [pc |-> "payload",
                                   length |-> struct_unpack(length_prefix)]
    /\ UNCHANGED <<solverVars, wireClosed, sentLog>>

\* a faulty variant without the two tests on data_buffer
RecvPayload_no_length_test ==
    /\ mode = "wire" /\ receiver.pc = "payload"
    /\ Len(wire) >= receiver.length \/ wireClosed
    /\ LET data == pickle_loads(take(wire, receiver.length))
       IN  /\ wire' = drop(wire, receiver.length)
           /\ recvLog' = Append(recvLog, IF data = UnpicklingError THEN data
                                         ELSE [returned |-> <<data>>])
           /\ receiver' = [pc |-> IF data = UnpicklingError THEN "ended" ELSE "idle",
                           length |-> 0]
    /\ UNCHANGED <<solverVars, wireClosed, sentLog>>

\* data_buffer = sock.recv(length, socket.MSG_WAITALL), the two tests on it,
\* and pickle.loads
RecvPayload ==
    /\ mode = "wire" /\ receiver.pc = "payload"
    /\ Len(wire) >= receiver.length \/ wireClosed
    /\ LET data_buffer == take(wire, receiver.length)
       IN  /\ wire' = drop(wire, receiver.length)
           /\ IF data_buffer = << >>
              THEN /\ recvLog' = Append(recvLog, [raised |-> "EOFError", at |-> "data"])
                   /\ receiver' = [pc |-> "ended", length |-> 0]
              ELSE IF Len(data_buffer) < receiver.length
              THEN /\ recvLog' = Append(recvLog,
                                        [raised |-> "EOFError", at |-> "incomplete"])
                   /\ receiver' = [pc |-> "ended", length |-> 0]
              ELSE LET data == pickle_loads(data_buffer)
                   IN  /\ recvLog' = Append(recvLog,
                               IF data = UnpicklingError THEN data
                               ELSE [returned |-> <<data>>])
                       /\ receiver' = [pc |-> IF data = UnpicklingError
                                             THEN "ended" ELSE "idle",
                                       length |-> 0]
    /\ UNCHANGED <<solverVars, wireClosed, sentLog>>

NextWire ==
    \/ \E m \in WireMessages : WireSend(m)
    \/ WireClose
    \/ \E m \in WireMessages : \E k \in 1..(Len(frame(m)) - 1) : WireCut(m, k)
    \/ RecvPrefix \/ RecvPayload

SpecWire == InitWire /\ [][NextWire]_vars

\* the frames of the messages sentLog[k], sentLog[k+1], ... one after another
RECURSIVE frames_from(_)
frames_from(k) ==
    IF k > Len(sentLog) THEN << >> ELSE frame(sentLog[k]) \o frames_from(k + 1)

IsPrefix(a, b) == Len(a) <= Len(b) /\ SubSeq(b, 1, Len(a)) = a

\* C23: the k-th receive_pickled_data call returns a message equal to the k-th
\* message given to send_pickled_data, optional fields that are None included,
\* and returns no message beyond those sent; every frame put on the stream is
\* the 4-byte big-endian payload length followed by the payload, and between
\* two calls the stream starts with the whole frames of the messages not yet
\* returned, so that a call consumes exactly one frame.
C23_WireRoundTrip ==
    /\ [](mode = "wire" =>
            /\ \A k \in 1..Len(recvLog) :
                  IF k <= Len(sentLog)
                  THEN recvLog[k] = [returned |-> <<sentLog[k]>>]
                  ELSE "returned" \in DOMAIN recvLog[k] => recvLog[k].returned = None
            /\ receiver.pc = "idle" => IsPrefix(frames_from(Len(recvLog) + 1), wire)
            /\ (receiver.pc = "payload" /\ Len(recvLog) < Len(sentLog)) =>
                  /\ receiver.length = Len(pickle_dumps(sentLog[Len(recvLog) + 1]))
                  /\ IsPrefix(pickle_dumps(sentLog[Len(recvLog) + 1]), wire))
    /\ [][(mode = "wire" /\ Len(sentLog') > Len(sentLog)) =>
             LET payload == pickle_dumps(sentLog'[Len(sentLog')])
             IN  /\ Len(sentLog') = Len(sentLog) + 1
                 /\ wire' = wire \o <<0, 0, 0, Len(payload)>> \o payload]_vars

C23_Witness ==
    /\ mode = "wire" /\ Len(recvLog) = 2 /\ wire = << >>
    /\ "returned" \in DOMAIN recvLog[1] /\ recvLog[1].returned # None
    /\ recvLog[1].returned[1].type = "ITERATION_UPDATE"
    /\ recvLog[1].returned[1].halo_top = None
    /\ recvLog[1].returned[1].hotspot_pos_relative = None
    /\ recvLog[1].returned[1].halo_bottom # None
    /\ "returned" \in DOMAIN recvLog[2] /\ recvLog[2].returned # None
    /\ recvLog[2].returned[1].type = "SUB_GRID_RESULT"

\* what the receive_pickled_data call that ends in this step hands to its caller
ReceiveOutcome == recvLog'[Len(recvLog')]
ReceiveEnds == mode = "wire" /\ Len(recvLog') > Len(recvLog)
IsError(out) == "raised" \in DOMAIN out
IsMessage(out) == "returned" \in DOMAIN out /\ out.returned # None

\* C24 as stated: a stream that ends after zero to three bytes of a prefix, or
\* before the whole payload, makes the receive raise, and no message is returned.
C24_EveryShortReadRaises ==
    [][ReceiveEnds =>
          /\ (receiver.pc = "idle" /\ Len(wire) < 4) => IsError(ReceiveOutcome)
          /\ (receiver.pc = "payload" /\ Len(wire) < receiver.length) =>
                 IsError(ReceiveOutcome)
          /\ IsMessage(ReceiveOutcome) =>
                 receiver.pc = "payload" /\ Len(wire) >= receiver.length]_vars

\* C24: a stream that ends with no byte of a prefix makes the receive return
\* None; one that ends after one to three bytes of a prefix, or before the
\* whole payload, makes it raise EOFError; a message is returned only when the
\* whole payload has arrived.
C24_ReceiveFailureOutcomes ==
    [][ReceiveEnds =>
          /\ (receiver.pc = "idle" /\ Len(wire) = 0) =>
                 ReceiveOutcome = [returned |-> None]
          /\ (receiver.pc = "idle" /\ Len(wire) \in 1..3) =>
                 ReceiveOutcome = [raised |-> "EOFError", at |-> "prefix"]
          /\ (receiver.pc = "payload" /\ Len(wire) < receiver.length) =>
                 /\ IsError(ReceiveOutcome)
                 /\ ReceiveOutcome.raised = "EOFError"
          /\ IsMessage(ReceiveOutcome) =>
                 receiver.pc = "payload" /\ Len(wire) >= receiver.length]_vars

C24_Witness ==
    /\ mode = "wire" /\ Len(recvLog) = 2
    /\ IsMessage(recvLog[1])
    /\ recvLog[2] = [raised |-> "EOFError", at |-> "incomplete"]

\* ----------------------------------- construction and the entry of solve()
\* The constructors as steps, on numeric parameters that include the invalid
\* ones, followed by the sequential run and by the entry checks of the
\* threaded solve().  The coordinator and the worker are built without a
\* hotspot here.
ConstructHotspots(gs) ==
    {<<hp, ht>> : hp \in HotspotChoices(gs),
                  ht \in {None} \cup {<<t>> : t \in HotspotTemps}}

InitConstruct ==
    /\ mode \in Modes \cup {"worker"}
    /\ grid_size \in (IF mode = "worker" THEN {0} ELSE 0..MaxGridSize)
    /\ alpha \in (IF mode = "worker" THEN {0} ELSE {-1, 0, 1})
    /\ dt \in (IF mode = "worker" THEN {0} ELSE {0, 1})
    /\ dx \in (IF mode = "worker" THEN {0} ELSE {0, 1, 2})
    /\ c = None
    /\ boundary_temp \in BoundaryTemps
    /\ initial_temp \in InitialTemps
    /\ \E h \in (IF mode \in {"seq", "thr"} THEN ConstructHotspots(grid_size)
                 ELSE {<<None, None>>}) :
          hotspot_pos = h[1] /\ hotspot_temp = h[2]
    /\ num_iterations \in (IF mode = "seq" THEN Iterations ELSE {1})
    /\ num_workers = 1
    /\ grids = None
    /\ current_grid = "A" /\ next_grid = "B"
    /\ mainPc = "construct" /\ iteration = 0 /\ result = "pending"
    /\ bands = << >>
    /\ bParties = 0 /\ bState = "filling" /\ bCount = 0
    /\ taskPc = << >> /\ taskIter = << >> /\ taskPos = << >> /\ taskLocal = << >>
    /\ taskWrites = << >>
    /\ procPc = << >> /\ procCfg = << >>
    /\ toWorker = << >> /\ toMaster = << >>
    /\ connClosed = << >>
    /\ faulted = FALSE
    /\ WireUnused
    /\ returnedGrids = << >> /\ swapLoaded = None

\* a faulty variant that also rejects a diffusion factor above 1/4
base_parameters_valid_stable_only(gs, a, t, x) ==
    gs >= 3 /\ a > 0 /\ t > 0 /\ x > 0 /\ 4 * a * t <= x * x

\* the parameter validation of heat_diffusion_base.py
base_parameters_valid(gs, a, t, x) == gs >= 3 /\ a > 0 /\ t > 0 /\ x > 0

\* if self.c > 0.25: print(the CFL warning)
cfl_warning(cc) == 4 * cc[1] > cc[2]

\* BaseHeatDiffusion.__init__ of heat_diffusion_base.py, the constructor of the
\* sequential and of the threaded solver
ConstructBase ==
    /\ mode \in {"seq", "thr"} /\ mainPc = "construct"
    /\ IF base_parameters_valid(grid_size, alpha, dt, dx)
       THEN /\ c' = diffusion_factor(alpha, dt, dx)
            /\ grids' = constructed_grids(grid_size, initial_temp, boundary_temp)
            /\ mainPc' = "start" /\ result' = result
       ELSE /\ result' = "ValueError" /\ mainPc' = "done"
            /\ UNCHANGED <<c, grids>>
    /\ UNCHANGED <<callVars, wireVars, mode, grid_size, alpha, dt, dx, boundary_temp,
                   initial_temp, hotspot_pos, hotspot_temp, num_iterations,
                   num_workers, current_grid, next_grid, iteration, bands,
                   barrierVars, taskVars, netVars>>

\* HeatDiffusionMaster.__init__: BaseHeatDiffusion.__init__ of shared_utils.py
\* (no validation; the division raises for dx = 0), the two buffers (indexing
\* row 0 of an empty array raises IndexError), the barrier
ConstructMaster ==
    /\ mode = "dist" /\ mainPc = "construct"
    /\ IF dx = 0
       THEN /\ result' = "ZeroDivisionError" /\ mainPc' = "done"
            /\ UNCHANGED <<c, grids, bParties>>
       ELSE IF grid_size = 0
       THEN /\ c' = diffusion_factor(alpha, dt, dx)
            /\ grids' = [b \in {"A", "B"} |-> full(0, initial_temp)]
            /\ result' = "IndexError" /\ mainPc' = "done"
            /\ UNCHANGED bParties
       ELSE /\ c' = diffusion_factor(alpha, dt, dx)
            /\ grids' = master_constructed_grids(grid_size, initial_temp,
                                                 boundary_temp, hotspot_pos,
                                                 hotspot_temp)
            /\ bParties' = num_workers + 1
            /\ mainPc' = "constructed" /\ result' = result
    /\ UNCHANGED <<callVars, wireVars, mode, grid_size, alpha, dt, dx, boundary_temp,
                   initial_temp, hotspot_pos, hotspot_temp, num_iterations,
                   num_workers, current_grid, next_grid, iteration, bands,
                   bState, bCount, taskVars, netVars>>

\* HeatDiffusionWorker.__init__: super().__init__(grid_size=0, alpha=0, dt=0,
\* dx=0, boundary_temp=0) evaluates alpha * dt / (dx**2)
ConstructWorker ==
    /\ mode = "worker" /\ mainPc = "construct"
    /\ IF dx = 0
       THEN result' = "ZeroDivisionError" /\ mainPc' = "done" /\ c' = c
       ELSE result' = result /\ mainPc' = "constructed"
                /\ c' = diffusion_factor(alpha, dt, dx)
    /\ UNCHANGED <<callVars, wireVars, mode, grid_size, alpha, dt, dx, boundary_temp,
                   initial_temp, hotspot_pos, hotspot_temp, num_iterations,
                   num_workers, gridVars, iteration, bands, barrierVars, taskVars,
                   netVars>>

NextConstruct ==
    \/ ConstructBase \/ ConstructMaster \/ ConstructWorker
    \/ NextSeq
    \/ ThrSolveStart

SpecConstruct == InitConstruct /\ [][NextConstruct]_vars

\* the single thread of a constructor or of the sequential solver keeps running
FairSpecConstruct == InitConstruct /\ [][NextConstruct]_vars /\ WF_vars(NextConstruct)

\* the parameters the specification accepts at construction
ValidConstruction == grid_size >= 3 /\ alpha > 0 /\ dt > 0 /\ dx > 0

\* a constructor returns or raises in this step
ConstructorEnds == mainPc = "construct" /\ mainPc' # "construct"

\* C25: constructing the sequential solver, the threaded solver or the
\* coordinator with grid_size < 3, or with alpha, dt or dx not positive, ends
\* with an error and no grid buffer has been built.
C25_ConstructionValidation ==
    [][(mode \in Modes /\ ConstructorEnds /\ ~ValidConstruction) =>
          /\ result' # "pending"
          /\ grids' = None]_vars

\* solve() was called with exactly one of hotspot_pos and hotspot_temp
HalfHotspot == (hotspot_pos = None) # (hotspot_temp = None)

\* C26: solve() of the sequential and of the threaded solver, called with
\* exactly one of hotspot_pos and hotspot_temp, raises ValueError in its first
\* step with every grid cell as the constructor left it and no worker thread.
C26_HotspotNeedsBothParts ==
    /\ []((mode \in {"seq", "thr"} /\ HalfHotspot /\ grids # None) =>
             /\ grids = constructed_grids(grid_size, initial_temp, boundary_temp)
             /\ taskPc = << >>
             /\ mainPc \in {"start", "done"})
    /\ [][(mode \in {"seq", "thr"} /\ HalfHotspot
             /\ mainPc = "start" /\ mainPc' # "start") =>
                /\ result' = "ValueError" /\ mainPc' = "done"
                /\ grids' = grids /\ taskPc' = << >>]_vars

C26_Witness ==
    /\ mode = "thr" /\ mainPc = "done" /\ result = "ValueError"
    /\ hotspot_pos # None /\ hotspot_temp = None /\ grids # None

\* valid parameters whose diffusion factor alpha*dt/dx^2 exceeds 1/4
CflViolation == ValidConstruction /\ 4 * alpha * dt > dx * dx

EndedEarly ==
    mode = "dist" /\ mainPc = "done" /\ result = "grid" /\ iteration < num_iterations

\* C28: when a distributed run has ended early because a band failed (its
\* worker was lost or answered with a malformed response), every border cell
\* of the returned grid equals boundary_temp and the hotspot cell, if one is
\* configured, equals hotspot_temp.
C28_FailureKeepsGridInvariants ==
    EndedEarly =>
        /\ BorderOK(grids[current_grid])
        /\ hotspot_pos # None =>
               grids[current_grid][hotspot_pos[1]][hotspot_pos[2]] = hotspot_temp[1]

C28_Witness ==
    /\ EndedEarly /\ faulted /\ iteration >= 1
    /\ hotspot_pos # None /\ num_workers = 2

\* C29: HeatDiffusionWorker(master_host, master_port) returns a worker object
\* without raising, so that run() can be called on it.
C29_WorkerConstructs ==
    [][(mode = "worker" /\ ConstructorEnds) =>
          /\ result' = "pending"
          /\ mainPc' = "constructed"]_vars

\* a handler thread that entered its iteration loop (its worker took the
\* configuration it sent) and has finished before completing num_iterations
HandlerFinishedEarly(i) ==
    /\ mode = "dist" /\ taskPc[i] = "done"
    /\ procCfg[i] # None
    /\ taskIter[i] < num_iterations

\* C30: when a handler thread that left its iteration loop early (break
\* branch, or an exception of send, receive or the barrier wait) has
\* finished, the shared barrier is broken, whoever was waiting.
C30_EarlyExitLeavesBarrierBroken ==
    \A i \in DOMAIN taskPc : HandlerFinishedEarly(i) => bState = "broken"

\* -------------------------------------------------- halos of an update
SlicesTop(i) == taskPc[i] = "slice_top" /\ taskPc'[i] = "send"
SendsUpdate(i) ==
    /\ taskPc[i] = "send" /\ taskPc'[i] = "recv"
    /\ Len(toWorker'[i]) = Len(toWorker[i]) + 1
LastSent(i) == toWorker'[i][Len(toWorker'[i])]

AnswersUpdate(i) ==
    /\ procPc[i] = "running" /\ toWorker[i] # << >>
    /\ update_accepted(Head(toWorker[i]))
    /\ toWorker'[i] = Tail(toWorker[i])
    /\ Len(toMaster'[i]) = Len(toMaster[i]) + 1

\* a global grid that the update msg of band i is cut from: the rows
\* start_row-1 .. end_row are those of the message (an absent halo is a row of
\* boundary_temp), the other rows do not matter to the band
snapshot_of(i, msg) ==
    LET border_row == [col \in 0..(grid_size - 1) |-> boundary_temp]
    IN  [r \in 0..(grid_size - 1) |->
            IF r = start_of(i) - 1
            THEN (IF msg.halo_top # None THEN msg.halo_top[1] ELSE border_row)
            ELSE IF r = end_of(i)
            THEN (IF msg.halo_bottom # None THEN msg.halo_bottom[1] ELSE border_row)
            ELSE IF start_of(i) <= r /\ r < end_of(i)
            THEN msg.sub_grid[r - start_of(i)]
            ELSE grids[current_grid][r]]

\* the sequential interior sweep applied to G
swept(G) == seq_sweep([A |-> G, B |-> G], "A", "B", 0)["B"]

\* C32: the SUB_GRID_RESULT a worker answers an ITERATION_UPDATE of band
\* [start_row, end_row) with has end_row-start_row rows; in the interior
\* columns each row equals the row of the sequential sweep applied to the
\* snapshot the update was cut from (stencil or hotspot override), and columns
\* 0 and grid_size-1 come back unchanged.
C32_WorkerRefinesSweep ==
    [][\A i \in DOMAIN procPc :
          (mode = "dist" /\ AnswersUpdate(i)) =>
              LET msg == Head(toWorker[i])
                  G == snapshot_of(i, msg)
                  rows == toMaster'[i][Len(toMaster'[i])].updated_sub_grid
              IN  /\ DOMAIN rows = 0..(end_of(i) - start_of(i) - 1)
                  /\ \A r \in start_of(i)..(end_of(i) - 1) :
                        \A col \in 0..(grid_size - 1) :
                            rows[r - start_of(i)][col] =
                                IF col = 0 \/ col = grid_size - 1
                                THEN G[r][col]
                                ELSE swept(G)[r][col]]_vars

C32_Witness ==
    /\ mode = "dist" /\ num_workers = 2 /\ hotspot_pos # None /\ iteration >= 1
    /\ \A i \in DOMAIN toMaster :
          /\ toMaster[i] # << >>
          /\ msg_type(Head(toMaster[i])) = "SUB_GRID_RESULT"

\* the bands whose row range holds the hotspot's row
HotspotOwners ==
    {j \in Tasks : start_of(j) <= hotspot_pos[1] /\ hotspot_pos[1] < end_of(j)}

\* C33: with an interior hotspot (row, col), exactly one band has
\* start_row <= row < end_row; every ITERATION_UPDATE of that band carries
\* hotspot_pos_relative = (row - start_row, col), and every ITERATION_UPDATE
\* of another band carries None.
C33_HotspotRouting ==
    [][\A i \in DOMAIN taskPc :
          (mode = "dist" /\ hotspot_pos # None /\ IsInterior(hotspot_pos)
           /\ SendsUpdate(i)) =>
              /\ Cardinality(HotspotOwners) = 1
              /\ i \in HotspotOwners =>
                     LastSent(i).hotspot_pos_relative =
                         <<hotspot_pos[1] - start_of(i), hotspot_pos[2]>>
              /\ i \notin HotspotOwners =>
                     LastSent(i).hotspot_pos_relative = None]_vars

C33_Witness ==
    /\ mode = "dist" /\ num_workers = 2 /\ hotspot_pos # None /\ iteration >= 1
    /\ \A i \in DOMAIN toWorker :
          /\ toWorker[i] # << >>
          /\ msg_type(Head(toWorker[i])) = "ITERATION_UPDATE"
    /\ \E i \in DOMAIN toWorker : Head(toWorker[i]).hotspot_pos_relative = None
    /\ \E i \in DOMAIN toWorker : Head(toWorker[i]).hotspot_pos_relative = <<0, 1>>

\* ------------------------------------------------ writes of a worker task
\* worker task i writes into a grid: a cell assignment of a worker thread, or
\* the row assignment of a handler thread
WorkerWrites(i) ==
    \/ mode = "thr" /\ taskPc[i] = "compute" /\ taskPos'[i] = taskPos[i] + 1
    \/ mode = "dist" /\ taskPc[i] = "recv" /\ taskPc'[i] = "wait"

CellChanged(b, r, col) == grids'[b][r][col] # grids[b][r][col]

\* C34: in both concurrent modes a write of worker task i changes only cells
\* of the buffer that is next at that moment whose row lies in the band
\* [start_row, end_row) of i, never border row 0 or grid_size-1; the bands of
\* different tasks share no row, so no cell is written by two tasks.
C34_BandWriteDiscipline ==
    [][\A i \in DOMAIN taskPc :
          WorkerWrites(i) =>
              /\ \A b \in {"A", "B"} : \A r, col \in 0..(grid_size - 1) :
                    CellChanged(b, r, col) =>
                        /\ b = next_grid
                        /\ start_of(i) <= r /\ r < end_of(i)
                        /\ 0 < r /\ r < grid_size - 1
              /\ \A j \in DOMAIN taskPc :
                    j # i => end_of(i) <= start_of(j) \/ end_of(j) <= start_of(i)]_vars

C34_Witness ==
    /\ mode \in {"thr", "dist"} /\ num_workers = 2 /\ iteration >= 1
    /\ \A i \in DOMAIN taskWrites : taskWrites[i] >= 2
    /\ grids["A"] # grids["B"]

\* ---------------------------------------------- solve() called a second time
\* the caller keeps the grid solve() returned and calls solve() again on the
\* same instance with the same arguments
SolveAgain ==
    /\ mode \in {"seq", "thr"} /\ mainPc = "done" /\ result = "grid"
    /\ returnedGrids = << >>
    /\ returnedGrids' = <<grids[current_grid]>>
    /\ mainPc' = "start" /\ result' = "pending" /\ iteration' = 0
    /\ UNCHANGED <<swapLoaded, wireVars, params, num_workers, gridVars, bands, barrierVars, taskVars,
                   netVars>>

NextAgain == NextSeq \/ NextThr \/ SolveAgain
InitAgain == Init /\ mode \in {"seq", "thr"}
SpecAgain == InitAgain /\ [][NextAgain]_vars

\* C35: the grid a second solve() call with the same arguments returns equals
\* the grid the first call returned.
C35_SolveTwiceEqual ==
    (mode \in {"seq", "thr"} /\ mainPc = "done" /\ result = "grid" /\ returnedGrids # << >>) =>
        grids[current_grid] = returnedGrids[1]

\* ------------------------------------------- solve() with any hotspot cell
\* hotspot positions a caller may pass: any cell of the grid, and positions
\* one step outside it
AnyHotspotChoices(gs) == {None} \cup {<<r, col>> : r \in (-1)..gs, col \in (-1)..gs}

InitHotspot ==
    /\ mode \in {"seq", "thr"}
    /\ grid_size \in GridSizes
    /\ alpha \in Alphas /\ dt \in Dts /\ dx \in Dxs
    /\ c = diffusion_factor(alpha, dt, dx)
    /\ boundary_temp \in BoundaryTemps
    /\ initial_temp \in InitialTemps
    /\ hotspot_pos \in AnyHotspotChoices(grid_size)
    /\ hotspot_temp \in (IF hotspot_pos = None THEN {None} ELSE {<<t>> : t \in HotspotTemps})
    /\ num_iterations \in {1}
    /\ num_workers = 1
    /\ grids = constructed_grids(grid_size, initial_temp, boundary_temp)
    /\ current_grid = "A" /\ next_grid = "B"
    /\ mainPc = "start" /\ iteration = 0 /\ result = "pending"
    /\ bands = << >>
    /\ bParties = 0 /\ bState = "filling" /\ bCount = 0
    /\ taskPc = << >> /\ taskIter = << >> /\ taskPos = << >> /\ taskLocal = << >>
    /\ taskWrites = << >>
    /\ procPc = << >> /\ procCfg = << >>
    /\ toWorker = << >> /\ toMaster = << >>
    /\ connClosed = << >>
    /\ faulted = FALSE
    /\ WireUnused
    /\ returnedGrids = << >> /\ swapLoaded = None

SpecHotspot == InitHotspot /\ [][NextSeq \/ NextThr]_vars

\* solve() has ended on a hotspot position that is no interior cell
NonInteriorHotspotEnded ==
    /\ mode \in {"seq", "thr"} /\ mainPc = "done"
    /\ hotspot_pos # None /\ ~IsInterior(hotspot_pos)

InGrid(pos) ==
    /\ 0 <= pos[1] /\ pos[1] < grid_size
    /\ 0 <= pos[2] /\ pos[2] < grid_size

\* C36: solve() rejects a hotspot position that is no interior cell: the
\* hotspot temperature is written into neither buffer, and after the rejection
\* every border cell of both buffers equals boundary_temp.
C36_RejectedHotspotKeepsBorder ==
    NonInteriorHotspotEnded =>
        /\ result = "ValueError"
        /\ \A b \in {"A", "B"} :
              /\ InGrid(hotspot_pos) =>
                     grids[b][hotspot_pos[1]][hotspot_pos[2]] # hotspot_temp[1]
              /\ BorderOK(grids[b])

\* a run of a concurrent mode that started its worker tasks, lost no worker,
\* and whose main task has ended
FaultFreeEnded ==
    /\ mode \in {"thr", "dist"} /\ ~faulted
    /\ taskPc # << >> /\ mainPc = "done"

\* C37: a run of the threaded solver or of the coordinator without transport
\* failure, with or without hotspot, ends with the current grid returned
\* after num_iterations iterations, every worker task having passed the
\* barrier num_iterations times and terminated.
C37_FaultFreeRunCompletes ==
    FaultFreeEnded =>
        /\ result = "grid"
        /\ iteration = num_iterations
        /\ \A i \in DOMAIN taskPc :
              taskPc[i] = "done" /\ taskIter[i] = num_iterations

\* ------------------------------------------------ accept() fails in run()
\* server_socket.accept() raises socket.error (environment fault): the except
\* clause closes the listening socket and returns None; the handler threads
\* started so far are daemon threads and keep running
MasterAcceptError ==
    /\ mode = "dist" /\ mainPc = "accept"
    /\ result' = "none" /\ mainPc' = "done"
    /\ faulted' = TRUE
    /\ UNCHANGED <<callVars, wireVars, params, num_workers, gridVars, iteration, bands,
                   barrierVars, taskVars, procPc, procCfg, toWorker, toMaster, connClosed>>

NextAccept == NextDist \/ MasterAcceptError
\* the threads and worker processes that can run do run; faults are not forced
FairSpecAccept == InitDist /\ [][NextAccept]_vars /\ WF_vars(DistProgress)

\* run() returned None out of the accept loop with handler thread i started
AcceptFailedAfter(i) ==
    /\ mode = "dist" /\ result = "none" /\ mainPc = "done"
    /\ i \in DOMAIN taskPc /\ taskPc[i] # "unstarted"

\* C38: when accept fails after some workers have connected, run() has closed
\* the listening socket and returned None, and every handler thread started
\* before eventually finishes and the worker it serves eventually closes.
C38_AcceptFailureReleasesHandlers ==
    \A i \in 0..(MaxWorkers - 1) :
        AcceptFailedAfter(i) ~>
            (/\ ~server_listening
             /\ i \in DOMAIN taskPc /\ taskPc[i] = "done"
             /\ procPc[i] = "closed")

\* ------------------------------------- the swap statement, store by store
\* self.current_grid, self.next_grid = self.next_grid, self.current_grid is
\* two loads followed by two attribute stores, current first; in the modes
\* with several threads the other threads run between the stores.
\* Loads and first store: self.current_grid = (old) self.next_grid
SwapStoreCurrent ==
    /\ mode \in {"thr", "dist"} /\ mainPc = "swap"
    /\ swapLoaded' = current_grid
    /\ current_grid' = next_grid
    /\ mainPc' = "swap_next"
    /\ UNCHANGED <<returnedGrids, wireVars, params, num_workers, grids, next_grid, iteration,
                   result, bands, barrierVars, taskVars, netVars>>

\* second store: self.next_grid = (old) self.current_grid
SwapStoreNext ==
    /\ mode \in {"thr", "dist"} /\ mainPc = "swap_next"
    /\ next_grid' = swapLoaded
    /\ swapLoaded' = None
    /\ mainPc' = "boundary"
    /\ UNCHANGED <<returnedGrids, wireVars, params, num_workers, grids, current_grid, iteration,
                   result, bands, barrierVars, taskVars, netVars>>

\* the three solvers with the swap of the concurrent ones taken store by store
NextStores ==
    \/ NextSeq
    \/ ThrSolveStart
    \/ \E i \in 0..(MaxWorkers - 1) :
          \/ ThrWorkerCell(i) \/ ThrWorkerWait(i) \/ ThrWorkerWake(i)
          \/ MasterAccept(i)
          \/ HandlerSendConfig(i) \/ HandlerSliceCore(i) \/ HandlerSliceTop(i)
          \/ HandlerSend(i) \/ HandlerSendError(i)
          \/ HandlerRecv(i) \/ HandlerRecvNone(i) \/ HandlerRecvError(i)
          \/ HandlerWait(i) \/ HandlerWake(i) \/ HandlerFinally(i)
          \/ WorkerRecvConfig(i) \/ WorkerIterate(i) \/ WorkerRecvClosed(i)
          \/ WorkerLost(i)
    \/ ThrMainWait \/ ThrMainWake \/ ThrMainBoundary
    \/ ThrMainFragment \/ ThrMainHotspot \/ ThrMainJoin
    \/ MasterRunStart
    \/ MasterWait \/ MasterWake \/ MasterBoundary \/ MasterHotspot
    \/ MasterJoin \/ MasterTerminate
    \/ SwapStoreCurrent \/ SwapStoreNext
SpecStores == Init /\ [][NextStores]_vars

SameShape ==
    /\ DOMAIN grids = {"A", "B"}
    /\ DOMAIN grids["A"] = DOMAIN grids["B"]
    /\ \A r \in DOMAIN grids["A"] : DOMAIN grids["A"][r] = DOMAIN grids["B"][r]

SwapBegins == mainPc = "swap" /\ mainPc' # "swap"
SwapEnds == mainPc \in {"swap", "swap_next"} /\ mainPc' = "boundary"

====
